---- MODULE Spec2Model ----
(***************************************************************************)
(* A model of the role-gated access layer of the crew staffing backend:    *)
(* the bearer-token middleware (src/middleware/auth.js), the public crew   *)
(* registration (src/routes/crew.js), the admin route group                *)
(* (src/routes/admin.js) and the two revisions of the client route group   *)
(* that src/routes/client.js holds (lines 1-358 and lines 359-997).        *)
(*                                                                         *)
(* Every action is one HTTP request handled from the first middleware to   *)
(* the response.  Ids are positions in the collections: Mongo never reuses *)
(* an ObjectId, so the n-th saved document has id n and an id beyond the   *)
(* length of a collection is a well-formed id of no document.  Mongoose's  *)
(* array includes() compares ObjectIds by value, so membership in          *)
(* clientShortlists is membership of the id.                               *)
(***************************************************************************)
EXTENDS Integers, Sequences, FiniteSets, TLC

\* Bounds of the model.
NumCrew == 2
NumClients == 2
NumAdmins == 2
MaxRequests == 2
MaxReminders == 1
MaxBulk == 2
MaxResponds == 2
MaxFollowUps == 2
NumMerges == 2
NumWriters == 2
MaxCompletions == 2

CrewIds == 1..NumCrew
ClientIds == 1..NumClients
AdminIds == 1..NumAdmins

VARIABLES
  rev,        \* which revision of the client routes is deployed: 1 or 2
  crew,       \* Crew collection: sequence of crew records, id = position
  client,     \* Client collection: sequence of client records, id = position
  admin,      \* Admin collection: AdminIds -> "active" | "inactive" | "deleted"
  requests,   \* ClientRequest collection: sequence of request records
  reminders,  \* Reminder collection: sequence of reminder records
  inflight,   \* the requests whose handler waits for the database, by slot
  resp        \* the response to the last request

db == <<crew, client, admin, requests, reminders>>
vars == <<rev, crew, client, admin, requests, reminders, inflight, resp>>

----------------------------------------------------------------------------
\* Schemas

\* A faulty list of required slots, without the visa.
RequiredDocsNoVisa == {"cv", "passport", "cdc", "stcw", "coc", "seamanBook"}

RequiredDocs == {"cv", "passport", "cdc", "stcw", "coc", "seamanBook", "visa"}
DocSlots == RequiredDocs \cup {"photo"}
CrewStatuses == {"pending", "approved", "rejected", "missing_docs"}

\* The scalar paths of crewSchema; the documents sub-record is kept apart, by slot.
CrewFields ==
  {"_id", "fullName", "email", "phone", "rank", "nationality", "currentLocation",
   "dateOfBirth", "availabilityDate", "seaTimeSummary", "preferredVesselType",
   "additionalNotes", "status", "priority", "tags", "internalComments",
   "adminNotes", "approvedForClients", "clientShortlists", "submittedAt",
   "lastUpdated"}

\* Addresses as they arrive in a request body, and what express-validator's
\* normalizeEmail() makes of them (it lower-cases the address).
RawEmails == {"A@x.io", "a@x.io", "b@x.io"}
normalizeEmail(e) == IF e = "A@x.io" THEN "a@x.io" ELSE e

\* new Crew({... documents}): status, priority, approvedForClients and the arrays
\* take the schema's defaults; internalComments and adminNotes are <<>> while
\* unset and <<text>> once set.
NewCrew(email, documents) ==
  [email |-> email, documents |-> documents, status |-> "pending",
   approvedForClients |-> FALSE, clientShortlists |-> <<>>, tags |-> <<>>,
   priority |-> FALSE, internalComments |-> <<>>, adminNotes |-> <<>>]

NewClient == [isActive |-> TRUE]

\* new ClientRequest({client, crew, ..., status: 'pending'}).  respondedAt is 0
\* while unset and otherwise the number of responses the request has had (each
\* response stamps a later date); adminResponse is <<>> while unset.
NewRequest(clientId, crewId) ==
  [client |-> clientId, crew |-> crewId, status |-> "pending",
   adminResponse |-> <<>>, respondedAt |-> 0, followUps |-> <<>>]

----------------------------------------------------------------------------
\* Helpers on arrays

Range(s) == {s[i] : i \in DOMAIN s}

\* MongooseArray.includes(id)
includes(s, x) == \E i \in DOMAIN s : s[i] = x

\* A faulty filter, id => id === x, which keeps what it should drop.
filterKept(s, x) == IF includes(s, x) THEN <<x>> ELSE <<>>

\* Array.prototype.filter(id => id !== x)
RECURSIVE filterOut(_, _)
filterOut(s, x) ==
  IF s = <<>> THEN <<>>
  ELSE IF Head(s) = x THEN filterOut(Tail(s), x)
       ELSE <<Head(s)>> \o filterOut(Tail(s), x)

Count(s, x) == Cardinality({i \in DOMAIN s : s[i] = x})

\* [...new Set(s)]: the elements of s in the order of their first occurrence.
RECURSIVE newSet(_)
newSet(s) ==
  IF s = <<>> THEN <<>>
  ELSE LET r == newSet(SubSeq(s, 1, Len(s) - 1))
       IN IF s[Len(s)] \in Range(r) THEN r ELSE Append(r, s[Len(s)])

----------------------------------------------------------------------------
\* Tokens and the middleware

NoToken == [type |-> "none", id |-> 0]
BadToken == [type |-> "invalid", id |-> 0]
AdminToken(a) == [type |-> "admin", id |-> a]
ClientToken(c) == [type |-> "client", id |-> c]

\* Tokens the server has signed: generateToken is called for accounts that exist.
AdminTokens == {AdminToken(a) : a \in AdminIds}
ClientTokens == {ClientToken(c) : c \in DOMAIN client}
Tokens == {NoToken, BadToken} \cup AdminTokens \cup ClientTokens

\* A faulty auth that looks the account up but never tests isActive.
authIgnoringIsActive(tok) ==
  IF tok.type = "none"
  THEN [status |-> 401, message |-> "No token, authorization denied", userType |-> "none"]
  ELSE IF tok.type = "invalid"
  THEN [status |-> 401, message |-> "Token is not valid", userType |-> "none"]
  ELSE IF tok.type = "admin"
  THEN IF admin[tok.id] = "deleted"
       THEN [status |-> 401, message |-> "Token is not valid", userType |-> "none"]
       ELSE [status |-> 0, message |-> "", userType |-> "admin"]
  ELSE IF tok.type = "client"
  THEN IF tok.id \notin DOMAIN client
       THEN [status |-> 401, message |-> "Token is not valid", userType |-> "none"]
       ELSE [status |-> 0, message |-> "", userType |-> "client"]
  ELSE [status |-> 401, message |-> "Invalid token type", userType |-> "none"]

\* auth: the outcome of the token middleware; status 0 stands for next().
auth(tok) ==
  IF tok.type = "none"
  THEN [status |-> 401, message |-> "No token, authorization denied", userType |-> "none"]
  ELSE IF tok.type = "invalid"
  THEN [status |-> 401, message |-> "Token is not valid", userType |-> "none"]
  ELSE IF tok.type = "admin"
  THEN IF admin[tok.id] # "active"
       THEN [status |-> 401, message |-> "Token is not valid", userType |-> "none"]
       ELSE [status |-> 0, message |-> "", userType |-> "admin"]
  ELSE IF tok.type = "client"
  THEN IF tok.id \notin DOMAIN client \/ ~client[tok.id].isActive
       THEN [status |-> 401, message |-> "Token is not valid", userType |-> "none"]
       ELSE [status |-> 0, message |-> "", userType |-> "client"]
  ELSE [status |-> 401, message |-> "Invalid token type", userType |-> "none"]

\* A faulty adminAuth that lets every resolved principal through.
adminAuthAnyRole(userType) == userType # "none"

adminAuth(userType) == userType = "admin"

clientAuth(userType) == userType = "client"

\* router.use(auth, adminAuth) and router.use(auth, clientAuth): the outcome of
\* the two middlewares in front of a route group.
RouteGuard(group, tok) ==
  LET a == auth(tok) IN
  IF a.status # 0 THEN a
  ELSE IF group = "admin" /\ ~adminAuth(a.userType)
  THEN [status |-> 403, message |-> "Access denied. Admin privileges required.",
        userType |-> a.userType]
  ELSE IF group = "client" /\ ~clientAuth(a.userType)
  THEN [status |-> 403, message |-> "Access denied. Client privileges required.",
        userType |-> a.userType]
  ELSE a

----------------------------------------------------------------------------
\* Responses

Blank ==
  [op |-> "init", group |-> "public", tok |-> NoToken, userType |-> "none",
   status |-> 0, message |-> "", crewId |-> 0, clientId |-> 0,
   crews |-> {}, fields |-> {}, docs |-> {}, missing |-> {}, results |-> <<>>,
   summary |-> <<>>, req |-> <<>>, requestId |-> 0, requestIds |-> {},
   issued |-> NoToken]

\* A response of a route group's operation, after the guard let it through or not.
Reply(op, group, tok, g, status, message) ==
  [Blank EXCEPT !.op = op, !.group = group, !.tok = tok, !.userType = g.userType,
                !.status = status, !.message = message]

\* The guard's own answer: the handler does not run.
Denied(op, group, tok, g) ==
  /\ resp' = Reply(op, group, tok, g, g.status, g.message)
  /\ UNCHANGED <<rev, db, inflight>>

----------------------------------------------------------------------------
\* Initial states

Init ==
  /\ rev \in {1, 2}
  /\ crew = <<>>
  /\ client = <<>>
  /\ admin = [a \in AdminIds |-> "active"]
  /\ requests = <<>>
  /\ reminders = <<>>
  /\ inflight = <<>>
  /\ resp = Blank

----------------------------------------------------------------------------
\* Public route: POST /api/crew/register

Public == [status |-> 0, message |-> "", userType |-> "none"]

\* A faulty registration that skips Crew.findOne({ email }) and its 400.
RegisterNoLookup(rawEmail, body, files) ==
  LET email == normalizeEmail(rawEmail)
      missingDocs == {d \in RequiredDocs : d \notin files}
      R(status, message) ==
        [Reply("register", "public", NoToken, Public, status, message) EXCEPT
           !.req = [email |-> rawEmail, body |-> body, files |-> files]]
  IN
  /\ UNCHANGED <<rev, client, admin, requests, reminders, inflight>>
  /\ IF body = "invalid"
     THEN /\ resp' = R(400, "Validation failed")
          /\ UNCHANGED crew
     ELSE IF missingDocs # {}
     THEN /\ resp' = [R(400, "Required documents missing") EXCEPT !.missing = missingDocs]
          /\ UNCHANGED crew
     ELSE IF body = "badRank"
     THEN /\ resp' = R(500, "Server error")
          /\ UNCHANGED crew
     ELSE /\ Len(crew) < NumCrew
          /\ crew' = Append(crew, NewCrew(email, files))
          /\ resp' = [R(201, "Crew registration successful") EXCEPT !.crewId = Len(crew) + 1]

\* body: "invalid" fails an express-validator rule, "badRank" passes them with a
\* rank outside crewSchema's enum, "valid" passes both.  files: the uploaded slots.
Register(rawEmail, body, files) ==
  LET email == normalizeEmail(rawEmail)
      missingDocs == {d \in RequiredDocs : d \notin files}
      R(status, message) ==
        [Reply("register", "public", NoToken, Public, status, message) EXCEPT
           !.req = [email |-> rawEmail, body |-> body, files |-> files]]
  IN
  /\ UNCHANGED <<rev, client, admin, requests, reminders, inflight>>
  /\ IF body = "invalid"
     THEN /\ resp' = R(400, "Validation failed")
          /\ UNCHANGED crew
     ELSE IF \E i \in DOMAIN crew : crew[i].email = email
     THEN /\ resp' = R(400, "Crew member already registered with this email")
          /\ UNCHANGED crew
     ELSE IF missingDocs # {}
     THEN /\ resp' = [R(400, "Required documents missing") EXCEPT !.missing = missingDocs]
          /\ UNCHANGED crew
     ELSE IF body = "badRank"
     THEN /\ resp' = R(500, "Server error")
          /\ UNCHANGED crew
     ELSE /\ Len(crew) < NumCrew
          /\ crew' = Append(crew, NewCrew(email, files))
          /\ resp' = [R(201, "Crew registration successful") EXCEPT !.crewId = Len(crew) + 1]

----------------------------------------------------------------------------
\* Session routes (src/routes/auth.js and its later revision, part_001), mounted
\* at /api/auth with no guard in front of the group.  An account is named by
\* its id: a request that carries an account's email names that account, and
\* email 0 is an address no account has.  An admin id with no document is
\* "deleted" in admin.  The dates a handler stamps (lastLogin, lastActivity)
\* are not followed.

\* The id a new admin account is given: one that no document has.
FreeAdminIds == {a \in AdminIds : admin[a] = "deleted"}

\* POST /admin/login.  body "invalid" fails a validator; passwordOk is the
\* outcome of admin.comparePassword(password).
AdminLogin(email, body, passwordOk) ==
  LET R(code, message) ==
        [Reply("adminLogin", "auth", NoToken, Public, code, message)
           EXCEPT !.req = [email |-> email, body |-> body, passwordOk |-> passwordOk]]
  IN
  /\ UNCHANGED <<rev, db, inflight>>
  /\ IF body = "invalid" THEN resp' = R(400, "Validation failed")
     ELSE IF email \notin AdminIds \/ admin[email] # "active"
     THEN resp' = R(400, "Invalid credentials")
     ELSE IF ~passwordOk THEN resp' = R(400, "Invalid credentials")
     ELSE resp' = [R(200, "") EXCEPT !.issued = AdminToken(email)]

\* POST /client/login
ClientLogin(email, body, passwordOk) ==
  LET R(code, message) ==
        [Reply("clientLogin", "auth", NoToken, Public, code, message)
           EXCEPT !.req = [email |-> email, body |-> body, passwordOk |-> passwordOk]]
  IN
  /\ UNCHANGED <<rev, db, inflight>>
  /\ IF body = "invalid" THEN resp' = R(400, "Validation failed")
     ELSE IF email \notin DOMAIN client \/ ~client[email].isActive
     THEN resp' = R(400, "Invalid credentials")
     ELSE IF ~passwordOk THEN resp' = R(400, "Invalid credentials")
     ELSE resp' = [R(200, "") EXCEPT !.issued = ClientToken(email)]

\* POST /admin/register: no middleware in front of it.  The new account is
\* active by the schema's default and the answer carries a token for it.
AdminRegister(email, body) ==
  LET R(code, message) ==
        [Reply("adminRegister", "auth", NoToken, Public, code, message)
           EXCEPT !.req = [email |-> email, body |-> body]]
  IN
  /\ UNCHANGED <<rev, crew, client, requests, reminders, inflight>>
  /\ IF body = "invalid"
     THEN /\ resp' = R(400, "Validation failed")
          /\ UNCHANGED admin
     ELSE IF email \in AdminIds /\ admin[email] # "deleted"
     THEN /\ resp' = R(400, "Admin already exists")
          /\ UNCHANGED admin
     ELSE /\ FreeAdminIds # {}
          /\ LET a == CHOOSE x \in FreeAdminIds : \A y \in FreeAdminIds : x <= y IN
             /\ admin' = [admin EXCEPT ![a] = "active"]
             /\ resp' = [R(201, "") EXCEPT !.issued = AdminToken(a)]

\* POST /refresh, behind auth: a new token for the principal of the request.
Refresh(tok) ==
  LET g == RouteGuard("auth", tok) IN
  IF g.status # 0 THEN Denied("refresh", "auth", tok, g)
  ELSE /\ resp' = [Reply("refresh", "auth", tok, g, 200, "") EXCEPT !.issued = tok]
       /\ UNCHANGED <<rev, db, inflight>>

\* GET /keep-alive (part_001), behind auth.  updateOk: whether
\* findByIdAndUpdate(req.user._id, { lastActivity }) succeeds; it is awaited
\* inside the handler's try, whose catch answers 500.
KeepAlive(tok, updateOk) ==
  LET g == RouteGuard("auth", tok)
      R(code, message) ==
        [Reply("keepAlive", "auth", tok, g, code, message)
           EXCEPT !.req = [updateOk |-> updateOk]]
  IN
  IF g.status # 0 THEN Denied("keepAlive", "auth", tok, g)
  ELSE /\ resp' = IF updateOk THEN R(200, "Session is alive") ELSE R(500, "Server error")
       /\ UNCHANGED <<rev, db, inflight>>

----------------------------------------------------------------------------
\* Admin route group (src/routes/admin.js), behind router.use(auth, adminAuth)

\* POST /clients.  The address in the body is one no client account has yet.
CreateClient(tok) ==
  LET g == RouteGuard("admin", tok) IN
  IF g.status # 0 THEN Denied("createClient", "admin", tok, g)
  ELSE /\ Len(client) < NumClients
       /\ client' = Append(client, NewClient)
       /\ resp' = [Reply("createClient", "admin", tok, g, 201, "Client created successfully")
                     EXCEPT !.clientId = Len(client) + 1]
       /\ UNCHANGED <<rev, crew, admin, requests, reminders, inflight>>

\* PATCH /clients/:id/status
SetClientStatus(tok, id, isActive) ==
  LET g == RouteGuard("admin", tok)
      R(status, message) ==
        [Reply("setClientStatus", "admin", tok, g, status, message) EXCEPT !.clientId = id]
  IN
  IF g.status # 0 THEN Denied("setClientStatus", "admin", tok, g)
  ELSE /\ UNCHANGED <<rev, crew, admin, requests, reminders, inflight>>
       /\ IF id \notin DOMAIN client
          THEN /\ resp' = R(404, "Client not found")
               /\ UNCHANGED client
          ELSE /\ client' = [client EXCEPT ![id].isActive = isActive]
               /\ resp' = R(200, "")

\* The body of a status update: status, and each optional field as <<>> when
\* the body leaves it out and <<v>> when it supplies v.
StatusBody(status, approvedForClients) ==
  [status |-> status, approvedForClients |-> approvedForClients, tags |-> <<>>,
   priority |-> <<>>, internalComments |-> <<>>, adminNotes |-> <<>>]

\* A faulty update that merges the supplied tags into the stored ones.
updateDataMergingTags(doc, body) ==
  [doc EXCEPT
     !.status = body.status,
     !.priority = IF body.priority # <<>> THEN body.priority[1] ELSE @,
     !.tags = IF body.tags # <<>> THEN newSet(@ \o body.tags[1]) ELSE @,
     !.internalComments = IF body.internalComments # <<>> THEN body.internalComments ELSE @,
     !.adminNotes = IF body.adminNotes # <<>> THEN body.adminNotes ELSE @,
     !.approvedForClients =
        IF body.approvedForClients # <<>> THEN body.approvedForClients[1] ELSE @]

\* Crew.findByIdAndUpdate(id, updateData) on the record doc: updateData holds
\* the status and every optional field the body supplies (an array of tags, even
\* an empty one, is truthy).
updateData(doc, body) ==
  [doc EXCEPT
     !.status = body.status,
     !.priority = IF body.priority # <<>> THEN body.priority[1] ELSE @,
     !.tags = IF body.tags # <<>> THEN body.tags[1] ELSE @,
     !.internalComments = IF body.internalComments # <<>> THEN body.internalComments ELSE @,
     !.adminNotes = IF body.adminNotes # <<>> THEN body.adminNotes ELSE @,
     !.approvedForClients =
        IF body.approvedForClients # <<>> THEN body.approvedForClients[1] ELSE @]

\* A faulty status update without the validator of status.
PatchCrewStatusUnvalidated(tok, id, body) ==
  LET g == RouteGuard("admin", tok)
      R(code, message) ==
        [Reply("updateCrewStatus", "admin", tok, g, code, message)
           EXCEPT !.crewId = id, !.req = body]
  IN
  IF g.status # 0 THEN Denied("updateCrewStatus", "admin", tok, g)
  ELSE /\ UNCHANGED <<rev, client, admin, requests, reminders, inflight>>
       /\ IF id \notin DOMAIN crew
          THEN /\ resp' = R(404, "Crew not found")
               /\ UNCHANGED crew
          ELSE /\ crew' = [crew EXCEPT ![id] = updateData(@, body)]
               /\ resp' = R(200, "")

\* PATCH /crew/:id/status (admin.js, and the same handler in crew.js).
PatchCrewStatus(tok, id, body) ==
  LET g == RouteGuard("admin", tok)
      R(code, message) ==
        [Reply("updateCrewStatus", "admin", tok, g, code, message)
           EXCEPT !.crewId = id, !.req = body]
  IN
  IF g.status # 0 THEN Denied("updateCrewStatus", "admin", tok, g)
  ELSE /\ UNCHANGED <<rev, client, admin, requests, reminders, inflight>>
       /\ IF body.status \notin CrewStatuses
          THEN /\ resp' = R(400, "Validation failed")
               /\ UNCHANGED crew
          ELSE IF id \notin DOMAIN crew
          THEN /\ resp' = R(404, "Crew not found")
               /\ UNCHANGED crew
          ELSE /\ crew' = [crew EXCEPT ![id] = updateData(@, body)]
               /\ resp' = R(200, "")

\* PATCH /crew/:id/status with a body of status and, when approvedForClients is
\* <<b>>, approvedForClients b.
UpdateCrewStatus(tok, id, status, approvedForClients) ==
  PatchCrewStatus(tok, id, StatusBody(status, approvedForClients))

\* The summary of a bulk answer, from its per-id results and the listed ids.
Summary(results, crewIds) ==
  [successful |-> Cardinality({i \in DOMAIN results : results[i].success}),
   failed |-> Cardinality({i \in DOMAIN results : ~results[i].success}),
   total |-> Len(crewIds)]

\* PATCH /crew/bulk-status.  crewIds is a non-empty list.  One
\* Crew.findByIdAndUpdate(crewId, updateData) per listed id, each atomic and all
\* with the same updateData, so their order does not show.
BulkStatus(tok, crewIds, body) ==
  LET g == RouteGuard("admin", tok)
      R(code, message) ==
        [Reply("bulkStatus", "admin", tok, g, code, message)
           EXCEPT !.req = [crewIds |-> crewIds, body |-> body]]
      result(i) == IF crewIds[i] \in DOMAIN crew
                   THEN [crewId |-> crewIds[i], success |-> TRUE, error |-> ""]
                   ELSE [crewId |-> crewIds[i], success |-> FALSE, error |-> "Crew not found"]
      results == [i \in DOMAIN crewIds |-> result(i)]
  IN
  IF g.status # 0 THEN Denied("bulkStatus", "admin", tok, g)
  ELSE /\ UNCHANGED <<rev, client, admin, requests, reminders, inflight>>
       /\ IF body.status \notin CrewStatuses
          THEN /\ resp' = R(400, "Validation failed")
               /\ UNCHANGED crew
          ELSE /\ crew' = [id \in DOMAIN crew |->
                            IF id \in Range(crewIds) THEN updateData(crew[id], body)
                            ELSE crew[id]]
               /\ resp' = [R(200, "Bulk status update completed")
                             EXCEPT !.results = results,
                                    !.summary = Summary(results, crewIds)]

\* A faulty assign-client that skips Client.findById and its 404.
AssignClientUnchecked(tok, crewId, clientId) ==
  LET g == RouteGuard("admin", tok)
      R(code, message) ==
        [Reply("assignClient", "admin", tok, g, code, message)
           EXCEPT !.crewId = crewId, !.clientId = clientId]
  IN
  IF g.status # 0 THEN Denied("assignClient", "admin", tok, g)
  ELSE /\ UNCHANGED <<rev, client, admin, requests, reminders, inflight>>
       /\ IF crewId \notin DOMAIN crew
          THEN /\ resp' = R(404, "Crew not found")
               /\ UNCHANGED crew
          ELSE /\ crew' = IF ~includes(crew[crewId].clientShortlists, clientId)
                          THEN [crew EXCEPT ![crewId].clientShortlists = Append(@, clientId)]
                          ELSE crew
               /\ resp' = R(200, "Crew assigned to client shortlist successfully")

\* POST /crew/:crewId/assign-client
AssignClient(tok, crewId, clientId) ==
  LET g == RouteGuard("admin", tok)
      R(code, message) ==
        [Reply("assignClient", "admin", tok, g, code, message)
           EXCEPT !.crewId = crewId, !.clientId = clientId]
  IN
  IF g.status # 0 THEN Denied("assignClient", "admin", tok, g)
  ELSE /\ UNCHANGED <<rev, client, admin, requests, reminders, inflight>>
       /\ IF crewId \notin DOMAIN crew
          THEN /\ resp' = R(404, "Crew not found")
               /\ UNCHANGED crew
          ELSE IF clientId \notin DOMAIN client
          THEN /\ resp' = R(404, "Client not found")
               /\ UNCHANGED crew
          ELSE /\ crew' = IF ~includes(crew[crewId].clientShortlists, clientId)
                          THEN [crew EXCEPT ![crewId].clientShortlists = Append(@, clientId)]
                          ELSE crew
               /\ resp' = R(200, "Crew assigned to client shortlist successfully")

\* The lists of crew ids a bulk request may carry: any ids, in any order, an id
\* possibly more than once (the validators ask for a non-empty array only).
BulkLists == UNION {[1..n -> CrewIds] : n \in 1..MaxBulk}

\* POST /crew/bulk-assign-client.  Promise.all(crewIds.map(async ...)) starts one
\* callback per listed id; each reads the crew, tests includes() on its own copy
\* and saves a $push.  The callbacks of an id listed k times may all read before
\* any of them saves, so when the client is not yet a member the record receives
\* between 1 and k pushes: pushes[id] is that number.
BulkAssignClient(tok, crewIds, clientId, pushes) ==
  LET g == RouteGuard("admin", tok)
      R(code, message) ==
        [Reply("bulkAssignClient", "admin", tok, g, code, message)
           EXCEPT !.clientId = clientId]
      result(i) == IF crewIds[i] \in DOMAIN crew
                   THEN [crewId |-> crewIds[i], success |-> TRUE, error |-> ""]
                   ELSE [crewId |-> crewIds[i], success |-> FALSE, error |-> "Crew not found"]
      RECURSIVE pushN(_, _)
      pushN(s, n) == IF n = 0 THEN s ELSE pushN(Append(s, clientId), n - 1)
  IN
  IF g.status # 0 THEN Denied("bulkAssignClient", "admin", tok, g)
  ELSE /\ UNCHANGED <<rev, client, admin, requests, reminders, inflight>>
       /\ IF clientId \notin DOMAIN client
          THEN /\ resp' = R(404, "Client not found")
               /\ UNCHANGED crew
          ELSE /\ \A id \in CrewIds : pushes[id] \in 1..Count(crewIds, id) \/
                                      (Count(crewIds, id) = 0 /\ pushes[id] = 1)
               /\ crew' = [id \in DOMAIN crew |->
                            IF id \in Range(crewIds) /\ ~includes(crew[id].clientShortlists, clientId)
                            THEN [crew[id] EXCEPT !.clientShortlists = pushN(@, pushes[id])]
                            ELSE crew[id]]
               /\ resp' = [R(200, "Bulk assignment completed")
                             EXCEPT !.results = [i \in DOMAIN crewIds |-> result(i)],
                                    !.summary = Summary([i \in DOMAIN crewIds |-> result(i)],
                                                        crewIds),
                                    !.req = [crewIds |-> crewIds]]

\* A faulty merge that replaces the tags by the new ones.
newTagsReplacing(existingTags, tags) == newSet(tags)

\* newTags = [...new Set([...existingTags, ...tags])]
newTags(existingTags, tags) == newSet(existingTags \o tags)

\* A slot that handles no request.
Idle == [pc |-> "idle", tok |-> NoToken, crewIds |-> <<>>, tags |-> <<>>, items |-> <<>>]

\* PATCH /crew/bulk-tags, up to the first await of each callback.  crewIds is a
\* non-empty list and tags a list, as the validators ask.  Promise.all(
\* crewIds.map(async ...)) starts one callback per listed id; each has issued
\* Crew.findById and waits for it.  The handler answers in BulkTagsReply.
BulkTags(p, tok, crewIds, tags) ==
  LET g == RouteGuard("admin", tok)
      item(i) == [crewId |-> crewIds[i], pc |-> "find", doc |-> <<>>,
                  success |-> FALSE, error |-> ""]
  IN
  /\ p \in DOMAIN inflight
  /\ inflight[p].pc = "idle"
  /\ IF g.status # 0 THEN Denied("bulkTags", "admin", tok, g)
     ELSE /\ inflight' = [inflight EXCEPT ![p] =
                          [pc |-> "running", tok |-> tok, crewIds |-> crewIds,
                           tags |-> tags, items |-> [i \in DOMAIN crewIds |-> item(i)]]]
          /\ UNCHANGED <<rev, db, resp>>

\* One callback of a bulk tag request: Crew.findById answers.  The callback
\* returns 'Crew not found' or holds the document it was given.
MergeFind(p, i) ==
  /\ p \in DOMAIN inflight
  /\ inflight[p].pc = "running"
  /\ i \in DOMAIN inflight[p].items
  /\ inflight[p].items[i].pc = "find"
  /\ LET crewId == inflight[p].items[i].crewId IN
     inflight' = [inflight EXCEPT ![p].items[i] =
                  IF crewId \notin DOMAIN crew
                  THEN [@ EXCEPT !.pc = "done", !.error = "Crew not found"]
                  ELSE [@ EXCEPT !.pc = "save", !.doc = crew[crewId]]]
  /\ UNCHANGED <<rev, db, resp>>

\* One callback of a bulk tag request: crew.tags = newTags; await crew.save().
\* Assigning an array that equals the loaded one marks nothing modified and the
\* save writes nothing.  Otherwise the save sets the whole array under the
\* document's version, { _id, __v: <loaded> } with $inc __v, and throws a
\* VersionError when a write has incremented __v since the document was loaded;
\* the callback's catch turns that into a failed result.  __v is followed through
\* the arrays whose writes increment it: the record's differ from the loaded
\* document's exactly when such a write was made in between.
MergeSave(p, i) ==
  /\ p \in DOMAIN inflight
  /\ inflight[p].pc = "running"
  /\ i \in DOMAIN inflight[p].items
  /\ inflight[p].items[i].pc = "save"
  /\ LET crewId == inflight[p].items[i].crewId
         doc == inflight[p].items[i].doc
         tags == newTags(doc.tags, inflight[p].tags)
         stale == \/ crew[crewId].tags # doc.tags
                  \/ crew[crewId].clientShortlists # doc.clientShortlists
     IN
     IF tags = doc.tags
     THEN /\ inflight' = [inflight EXCEPT ![p].items[i] =
                          [@ EXCEPT !.pc = "done", !.success = TRUE]]
          /\ UNCHANGED crew
     ELSE IF stale
     THEN /\ inflight' = [inflight EXCEPT ![p].items[i] =
                          [@ EXCEPT !.pc = "done", !.error = "No matching document found"]]
          /\ UNCHANGED crew
     ELSE /\ crew' = [crew EXCEPT ![crewId].tags = tags]
          /\ inflight' = [inflight EXCEPT ![p].items[i] =
                          [@ EXCEPT !.pc = "done", !.success = TRUE]]
  /\ UNCHANGED <<rev, client, admin, requests, reminders, resp>>

\* PATCH /crew/bulk-tags, after Promise.all: every callback has returned and the
\* handler answers 200 with the per-id results.
BulkTagsReply(p) ==
  /\ p \in DOMAIN inflight
  /\ inflight[p].pc = "running"
  /\ \A i \in DOMAIN inflight[p].items : inflight[p].items[i].pc = "done"
  /\ LET m == inflight[p]
         g == RouteGuard("admin", m.tok)
         result(i) == [crewId |-> m.items[i].crewId, success |-> m.items[i].success,
                       error |-> m.items[i].error]
     IN resp' = [Reply("bulkTags", "admin", m.tok, g, 200, "Bulk tag assignment completed")
                   EXCEPT !.results = [i \in DOMAIN m.items |-> result(i)],
                          !.summary = Summary([i \in DOMAIN m.items |-> result(i)],
                                              m.crewIds),
                          !.req = [crewIds |-> m.crewIds, tags |-> m.tags]]
  /\ inflight' = [inflight EXCEPT ![p] = Idle]
  /\ UNCHANGED <<rev, db>>

\* DELETE /crew/:crewId/remove-client/:clientId
RemoveClient(tok, crewId, clientId) ==
  LET g == RouteGuard("admin", tok)
      R(code, message) ==
        [Reply("removeClient", "admin", tok, g, code, message)
           EXCEPT !.crewId = crewId, !.clientId = clientId]
  IN
  IF g.status # 0 THEN Denied("removeClient", "admin", tok, g)
  ELSE /\ UNCHANGED <<rev, client, admin, requests, reminders, inflight>>
       /\ IF crewId \notin DOMAIN crew
          THEN /\ resp' = R(404, "Crew not found")
               /\ UNCHANGED crew
          ELSE /\ crew' = [crew EXCEPT ![crewId].clientShortlists = filterOut(@, clientId)]
               /\ resp' = R(200, "Crew removed from client shortlist successfully")

\* POST /admins.  The account takes an id that no document has.
CreateAdmin(tok, email, body) ==
  LET g == RouteGuard("admin", tok)
      R(code, message) ==
        [Reply("createAdmin", "admin", tok, g, code, message)
           EXCEPT !.req = [email |-> email, body |-> body]]
  IN
  IF g.status # 0 THEN Denied("createAdmin", "admin", tok, g)
  ELSE /\ UNCHANGED <<rev, crew, client, requests, reminders, inflight>>
       /\ IF body = "invalid"
          THEN /\ resp' = R(400, "Validation failed")
               /\ UNCHANGED admin
          ELSE IF email \in AdminIds /\ admin[email] # "deleted"
          THEN /\ resp' = R(400, "Admin already exists with this email")
               /\ UNCHANGED admin
          ELSE /\ FreeAdminIds # {}
               /\ LET a == CHOOSE x \in FreeAdminIds : \A y \in FreeAdminIds : x <= y IN
                  admin' = [admin EXCEPT ![a] = "active"]
               /\ resp' = R(201, "Admin created successfully")

\* PATCH /admins/:id with isActive in the body
UpdateAdmin(tok, id, isActive) ==
  LET g == RouteGuard("admin", tok)
      R(code, message) == Reply("updateAdmin", "admin", tok, g, code, message)
  IN
  IF g.status # 0 THEN Denied("updateAdmin", "admin", tok, g)
  ELSE /\ UNCHANGED <<rev, crew, client, requests, reminders, inflight>>
       /\ IF admin[id] = "deleted"
          THEN /\ resp' = R(404, "Admin not found")
               /\ UNCHANGED admin
          ELSE /\ admin' = [admin EXCEPT ![id] = IF isActive THEN "active" ELSE "inactive"]
               /\ resp' = R(200, "Admin updated successfully")

\* DELETE /admins/:id
DeleteAdmin(tok, id) ==
  LET g == RouteGuard("admin", tok)
      R(code, message) == Reply("deleteAdmin", "admin", tok, g, code, message)
  IN
  IF g.status # 0 THEN Denied("deleteAdmin", "admin", tok, g)
  ELSE /\ UNCHANGED <<rev, crew, client, requests, reminders, inflight>>
       /\ IF admin[id] = "deleted"
          THEN /\ resp' = R(404, "Admin not found")
               /\ UNCHANGED admin
          ELSE /\ admin' = [admin EXCEPT ![id] = "deleted"]
               /\ resp' = R(200, "Admin deleted successfully")

\* new Reminder({...}): status takes the schema's default.  completedAt is 0
\* while unset and otherwise the number of completions stamped (each stamps a
\* later date); completedBy is 0 while unset and otherwise the admin's id;
\* deleted marks a reminder that Reminder.findByIdAndDelete has removed.
NewReminder == [status |-> "pending", completedAt |-> 0, completedBy |-> 0,
                deleted |-> FALSE]

\* POST /reminders
CreateReminder(tok) ==
  LET g == RouteGuard("admin", tok) IN
  IF g.status # 0 THEN Denied("createReminder", "admin", tok, g)
  ELSE /\ Len(reminders) < MaxReminders
       /\ reminders' = Append(reminders, NewReminder)
       /\ resp' = Reply("createReminder", "admin", tok, g, 201, "")
       /\ UNCHANGED <<rev, crew, client, admin, requests, inflight>>

\* PATCH /reminders/:id/status
SetReminderStatus(tok, id, status) ==
  LET g == RouteGuard("admin", tok)
      R(code, message) ==
        [Reply("setReminderStatus", "admin", tok, g, code, message)
           EXCEPT !.requestId = id, !.req = [status |-> status]]
  IN
  IF g.status # 0 THEN Denied("setReminderStatus", "admin", tok, g)
  ELSE /\ UNCHANGED <<rev, crew, client, admin, requests, inflight>>
       /\ IF status \notin {"pending", "completed", "cancelled"}
          THEN /\ resp' = R(400, "Valid status required")
               /\ UNCHANGED reminders
          ELSE IF id \notin DOMAIN reminders \/ reminders[id].deleted
          THEN /\ resp' = R(404, "Reminder not found")
               /\ UNCHANGED reminders
          ELSE /\ status = "completed" => reminders[id].completedAt < MaxCompletions
               /\ reminders' = [reminders EXCEPT
                    ![id].status = status,
                    ![id].completedAt = IF status = "completed" THEN @ + 1 ELSE @,
                    ![id].completedBy = IF status = "completed" THEN tok.id ELSE @]
               /\ resp' = R(200, "")

\* DELETE /reminders/:id
DeleteReminder(tok, id) ==
  LET g == RouteGuard("admin", tok)
      R(code, message) ==
        [Reply("deleteReminder", "admin", tok, g, code, message) EXCEPT !.requestId = id]
  IN
  IF g.status # 0 THEN Denied("deleteReminder", "admin", tok, g)
  ELSE /\ UNCHANGED <<rev, crew, client, admin, requests, inflight>>
       /\ IF id \notin DOMAIN reminders \/ reminders[id].deleted
          THEN /\ resp' = R(404, "Reminder not found")
               /\ UNCHANGED reminders
          ELSE /\ reminders' = [reminders EXCEPT ![id].deleted = TRUE]
               /\ resp' = R(200, "Reminder deleted successfully")

----------------------------------------------------------------------------
\* Client route group (src/routes/client.js), behind router.use(auth, clientAuth).
\* rev = 1 is the file's first revision (lines 1-358), rev = 2 its second
\* (lines 359-997).

\* Query.select('-a -b ...'): every scalar path but the excluded ones.
select(excluded) == CrewFields \ excluded

\* populate('crew', 'a b ...'): the listed paths, and _id.
populate(listed) == {"_id"} \cup listed

\* !(!crew || crew.status !== 'approved' || !crew.approvedForClients): the test
\* the handlers make on the record they have fetched.
Available(id) ==
  /\ id \in DOMAIN crew
  /\ crew[id].status = "approved"
  /\ crew[id].approvedForClients

\* A faulty crew list whose query leaves clientShortlists out.
ListCrewUngated(tok) ==
  LET g == RouteGuard("client", tok)
      matches == {id \in DOMAIN crew :
                    /\ crew[id].status = "approved"
                    /\ crew[id].approvedForClients}
  IN
  IF g.status # 0 THEN Denied("listCrew", "client", tok, g)
  ELSE /\ resp' = [Reply("listCrew", "client", tok, g, 200, "") EXCEPT
                     !.crews = matches,
                     !.fields = IF matches = {} THEN {}
                                ELSE select({"internalComments", "adminNotes", "tags",
                                             "priority", "email", "phone"})]
       /\ UNCHANGED <<rev, db, inflight>>

\* GET /crew
ListCrew(tok) ==
  LET g == RouteGuard("client", tok)
      matches == {id \in DOMAIN crew :
                    /\ crew[id].status = "approved"
                    /\ crew[id].approvedForClients
                    /\ rev = 2 => includes(crew[id].clientShortlists, tok.id)}
  IN
  IF g.status # 0 THEN Denied("listCrew", "client", tok, g)
  ELSE /\ resp' = [Reply("listCrew", "client", tok, g, 200, "") EXCEPT
                     !.crews = matches,
                     !.fields = IF matches = {} THEN {}
                                ELSE select({"internalComments", "adminNotes", "tags",
                                             "priority", "email", "phone"})]
       /\ UNCHANGED <<rev, db, inflight>>

\* GET /crew/:id.  In the second revision the handler assigns to documents.cv a
\* spread copy of the stored entry with a "restricted" marker; whether the
\* entry's name and url survive the ODM's cast of that copy is castKeepsCv.
CrewDetail(tok, id, castKeepsCv) ==
  LET g == RouteGuard("client", tok)
      R(code, message) ==
        [Reply("crewDetail", "client", tok, g, code, message) EXCEPT !.crewId = id]
      shown == select({"internalComments", "adminNotes", "email", "phone", "tags", "priority"})
  IN
  IF g.status # 0 THEN Denied("crewDetail", "client", tok, g)
  ELSE /\ UNCHANGED <<rev, db, inflight>>
       /\ IF ~Available(id)
          THEN resp' = R(404, "Crew not found or not available")
          ELSE IF rev = 2 /\ ~includes(crew[id].clientShortlists, tok.id)
          THEN resp' = R(403, "This crew member is not assigned to your company")
          ELSE resp' = [R(200, "") EXCEPT
                          !.crews = {id},
                          !.fields = shown,
                          !.docs = IF rev = 2 /\ castKeepsCv
                                   THEN crew[id].documents
                                   ELSE crew[id].documents \ {"cv"}]

\* GET /crew/:id/cv.  queryToken: the ?token= parameter the second revision
\* verifies when present ("absent", "valid" or "invalid"); fileOnDisk: whether
\* the stored file is found under either path the handler tries.
DownloadCv(tok, id, queryToken, fileOnDisk) ==
  LET g == RouteGuard("client", tok)
      R(code, message) ==
        [Reply("downloadCv", "client", tok, g, code, message) EXCEPT !.crewId = id]
  IN
  IF g.status # 0 THEN Denied("downloadCv", "client", tok, g)
  ELSE /\ UNCHANGED <<rev, db, inflight>>
       /\ IF rev = 1
          THEN resp' = R(403, "Access denied. CV downloads are not available for clients.")
          ELSE IF queryToken = "invalid"
          THEN resp' = R(401, "Invalid token")
          ELSE IF ~Available(id)
          THEN resp' = R(404, "Crew not found or not available")
          ELSE IF "cv" \notin crew[id].documents
          THEN resp' = R(404, "CV not available")
          ELSE IF ~fileOnDisk
          THEN resp' = R(404, "CV file not found on server")
          ELSE resp' = [R(200, "sendFile") EXCEPT !.crews = {id}, !.docs = {"cv"}]

allowedDocs == IF rev = 1 THEN {"passport", "cdc", "stcw", "coc", "seamanBook", "visa"}
               ELSE {"passport", "cdc", "stcw", "coc", "seamanBook", "visa", "photo"}

\* A faulty certificate view that looks the crew up before it tests the slot.
ViewCertificateLookupFirst(tok, id, docType, queryToken, fileOnDisk) ==
  LET g == RouteGuard("client", tok)
      R(code, message) ==
        [Reply("viewCertificate", "client", tok, g, code, message) EXCEPT
           !.crewId = id, !.req = [docType |-> docType, queryToken |-> queryToken]]
  IN
  IF g.status # 0 THEN Denied("viewCertificate", "client", tok, g)
  ELSE /\ UNCHANGED <<rev, db, inflight>>
       /\ IF rev = 2 /\ queryToken = "invalid"
          THEN resp' = R(401, "Invalid token")
          ELSE IF ~Available(id)
          THEN resp' = R(404, "Crew not found or not available")
          ELSE IF docType \notin allowedDocs
          THEN resp' = R(403, "Access denied for this document type")
          ELSE IF docType \notin crew[id].documents
          THEN resp' = R(404, "Document not found")
          ELSE IF rev = 1
          THEN resp' = [R(200, "Document available for viewing only.") EXCEPT
                          !.crews = {id}, !.fields = {"fileName", "uploadedAt"}]
          ELSE IF ~fileOnDisk
          THEN resp' = R(404, "file not found on server")
          ELSE resp' = [R(200, "sendFile") EXCEPT !.crews = {id}, !.docs = {docType}]

\* GET /crew/:id/certificate/:docType.  The first revision answers with the
\* document's name and upload date, the second streams the file.
ViewCertificate(tok, id, docType, queryToken, fileOnDisk) ==
  LET g == RouteGuard("client", tok)
      R(code, message) ==
        [Reply("viewCertificate", "client", tok, g, code, message) EXCEPT
           !.crewId = id, !.req = [docType |-> docType, queryToken |-> queryToken]]
  IN
  IF g.status # 0 THEN Denied("viewCertificate", "client", tok, g)
  ELSE /\ UNCHANGED <<rev, db, inflight>>
       /\ IF rev = 2 /\ queryToken = "invalid"
          THEN resp' = R(401, "Invalid token")
          ELSE IF docType \notin allowedDocs
          THEN resp' = R(403, "Access denied for this document type")
          ELSE IF ~Available(id)
          THEN resp' = R(404, "Crew not found or not available")
          ELSE IF docType \notin crew[id].documents
          THEN resp' = R(404, "Document not found")
          ELSE IF rev = 1
          THEN resp' = [R(200, "Document available for viewing only.") EXCEPT
                          !.crews = {id}, !.fields = {"fileName", "uploadedAt"}]
          ELSE IF ~fileOnDisk
          THEN resp' = R(404, "file not found on server")
          ELSE resp' = [R(200, "sendFile") EXCEPT !.crews = {id}, !.docs = {docType}]

\* POST /shortlist (the same in both revisions)
Shortlist(tok, crewId) ==
  LET g == RouteGuard("client", tok)
      R(code, message) ==
        [Reply("shortlist", "client", tok, g, code, message)
           EXCEPT !.crewId = crewId, !.clientId = tok.id]
  IN
  IF g.status # 0 THEN Denied("shortlist", "client", tok, g)
  ELSE /\ UNCHANGED <<rev, client, admin, requests, reminders, inflight>>
       /\ IF crewId \notin DOMAIN crew \/ crew[crewId].status # "approved"
          THEN /\ resp' = R(404, "Crew not found or not approved")
               /\ UNCHANGED crew
          ELSE /\ crew' = IF ~includes(crew[crewId].clientShortlists, tok.id)
                          THEN [crew EXCEPT ![crewId].clientShortlists = Append(@, tok.id)]
                          ELSE crew
               /\ resp' = R(200, "Crew shortlisted successfully")

\* DELETE /shortlist/:crewId (the same in both revisions)
Unshortlist(tok, crewId) ==
  LET g == RouteGuard("client", tok)
      R(code, message) ==
        [Reply("unshortlist", "client", tok, g, code, message)
           EXCEPT !.crewId = crewId, !.clientId = tok.id]
  IN
  IF g.status # 0 THEN Denied("unshortlist", "client", tok, g)
  ELSE /\ UNCHANGED <<rev, client, admin, requests, reminders, inflight>>
       /\ IF crewId \notin DOMAIN crew
          THEN /\ resp' = R(404, "Crew not found")
               /\ UNCHANGED crew
          ELSE /\ crew' = [crew EXCEPT ![crewId].clientShortlists = filterOut(@, tok.id)]
               /\ resp' = R(200, "Crew removed from shortlist")

----------------------------------------------------------------------------
\* The writers of clientShortlists, step by step.  Each handler awaits
\* Crew.findById and later crew.save(), and other requests are served in
\* between: a handler holds the document it loaded in a slot until its save.
\* push() + save() sends { $push, $inc: { __v: 1 } } with no condition on __v;
\* assigning the filtered array + save() sends { $set } under the loaded __v and
\* throws a VersionError when __v has moved, which the handler's catch answers
\* with 500.  As in MergeSave, __v is followed through the versioned arrays.

Stale(crewId, doc) ==
  \/ crew[crewId].tags # doc.tags
  \/ crew[crewId].clientShortlists # doc.clientShortlists

\* POST /shortlist up to "await crew.save()".
ShortlistRead(p, tok, crewId) ==
  LET g == RouteGuard("client", tok)
      R(code, message) ==
        [Reply("shortlist", "client", tok, g, code, message)
           EXCEPT !.crewId = crewId, !.clientId = tok.id]
  IN
  /\ p \in DOMAIN inflight
  /\ inflight[p].pc = "idle"
  /\ IF g.status # 0 THEN Denied("shortlist", "client", tok, g)
     ELSE /\ UNCHANGED <<rev, db>>
          /\ IF crewId \notin DOMAIN crew \/ crew[crewId].status # "approved"
             THEN /\ resp' = R(404, "Crew not found or not approved")
                  /\ UNCHANGED inflight
             ELSE IF includes(crew[crewId].clientShortlists, tok.id)
             THEN /\ resp' = R(200, "Crew shortlisted successfully")
                  /\ UNCHANGED inflight
             ELSE /\ inflight' = [inflight EXCEPT ![p] =
                                    [pc |-> "save", op |-> "shortlist", tok |-> tok,
                                     crewId |-> crewId, clientId |-> tok.id,
                                     doc |-> crew[crewId]]]
                  /\ UNCHANGED resp

\* POST /crew/:crewId/assign-client up to "await crew.save()".
AssignClientRead(p, tok, crewId, clientId) ==
  LET g == RouteGuard("admin", tok)
      R(code, message) ==
        [Reply("assignClient", "admin", tok, g, code, message)
           EXCEPT !.crewId = crewId, !.clientId = clientId]
  IN
  /\ p \in DOMAIN inflight
  /\ inflight[p].pc = "idle"
  /\ IF g.status # 0 THEN Denied("assignClient", "admin", tok, g)
     ELSE /\ UNCHANGED <<rev, db>>
          /\ IF crewId \notin DOMAIN crew
             THEN /\ resp' = R(404, "Crew not found")
                  /\ UNCHANGED inflight
             ELSE IF clientId \notin DOMAIN client
             THEN /\ resp' = R(404, "Client not found")
                  /\ UNCHANGED inflight
             ELSE IF includes(crew[crewId].clientShortlists, clientId)
             THEN /\ resp' = R(200, "Crew assigned to client shortlist successfully")
                  /\ UNCHANGED inflight
             ELSE /\ inflight' = [inflight EXCEPT ![p] =
                                    [pc |-> "save", op |-> "assignClient", tok |-> tok,
                                     crewId |-> crewId, clientId |-> clientId,
                                     doc |-> crew[crewId]]]
                  /\ UNCHANGED resp

\* The save of POST /shortlist and of POST /crew/:crewId/assign-client, and the
\* answer: the $push appends to the array as the record now holds it.
PushSave(p) ==
  /\ p \in DOMAIN inflight
  /\ inflight[p].pc = "save"
  /\ inflight[p].op \in {"shortlist", "assignClient"}
  /\ LET w == inflight[p]
         group == IF w.op = "shortlist" THEN "client" ELSE "admin"
         message == IF w.op = "shortlist" THEN "Crew shortlisted successfully"
                    ELSE "Crew assigned to client shortlist successfully"
     IN /\ crew' = [crew EXCEPT ![w.crewId].clientShortlists = Append(@, w.clientId)]
        /\ resp' = [Reply(w.op, group, w.tok, RouteGuard(group, w.tok), 200, message)
                      EXCEPT !.crewId = w.crewId, !.clientId = w.clientId]
  /\ inflight' = [inflight EXCEPT ![p] = Idle]
  /\ UNCHANGED <<rev, client, admin, requests, reminders>>

\* DELETE /shortlist/:crewId up to "await crew.save()".  Assigning an array that
\* equals the loaded one marks nothing modified, and the save writes nothing.
UnshortlistRead(p, tok, crewId) ==
  LET g == RouteGuard("client", tok)
      R(code, message) ==
        [Reply("unshortlist", "client", tok, g, code, message)
           EXCEPT !.crewId = crewId, !.clientId = tok.id]
  IN
  /\ p \in DOMAIN inflight
  /\ inflight[p].pc = "idle"
  /\ IF g.status # 0 THEN Denied("unshortlist", "client", tok, g)
     ELSE /\ UNCHANGED <<rev, db>>
          /\ IF crewId \notin DOMAIN crew
             THEN /\ resp' = R(404, "Crew not found")
                  /\ UNCHANGED inflight
             ELSE IF filterOut(crew[crewId].clientShortlists, tok.id) =
                       crew[crewId].clientShortlists
             THEN /\ resp' = R(200, "Crew removed from shortlist")
                  /\ UNCHANGED inflight
             ELSE /\ inflight' = [inflight EXCEPT ![p] =
                                    [pc |-> "save", op |-> "unshortlist", tok |-> tok,
                                     crewId |-> crewId, clientId |-> tok.id,
                                     doc |-> crew[crewId]]]
                  /\ UNCHANGED resp

\* A faulty save of the removal, which empties the shortlist.
UnshortlistSaveClearing(p) ==
  /\ p \in DOMAIN inflight
  /\ inflight[p].pc = "save"
  /\ inflight[p].op = "unshortlist"
  /\ LET w == inflight[p]
         R(code, message) ==
           [Reply("unshortlist", "client", w.tok, RouteGuard("client", w.tok), code, message)
              EXCEPT !.crewId = w.crewId, !.clientId = w.clientId]
     IN IF Stale(w.crewId, w.doc)
        THEN /\ resp' = R(500, "Server error")
             /\ UNCHANGED crew
        ELSE /\ crew' = [crew EXCEPT ![w.crewId].clientShortlists = <<>>]
             /\ resp' = R(200, "Crew removed from shortlist")
  /\ inflight' = [inflight EXCEPT ![p] = Idle]
  /\ UNCHANGED <<rev, client, admin, requests, reminders>>

\* The save of DELETE /shortlist/:crewId, and the answer.
UnshortlistSave(p) ==
  /\ p \in DOMAIN inflight
  /\ inflight[p].pc = "save"
  /\ inflight[p].op = "unshortlist"
  /\ LET w == inflight[p]
         R(code, message) ==
           [Reply("unshortlist", "client", w.tok, RouteGuard("client", w.tok), code, message)
              EXCEPT !.crewId = w.crewId, !.clientId = w.clientId]
     IN IF Stale(w.crewId, w.doc)
        THEN /\ resp' = R(500, "Server error")
             /\ UNCHANGED crew
        ELSE /\ crew' = [crew EXCEPT ![w.crewId].clientShortlists =
                                       filterOut(w.doc.clientShortlists, w.clientId)]
             /\ resp' = R(200, "Crew removed from shortlist")
  /\ inflight' = [inflight EXCEPT ![p] = Idle]
  /\ UNCHANGED <<rev, client, admin, requests, reminders>>

\* GET /shortlisted (the same in both revisions)
Shortlisted(tok) ==
  LET g == RouteGuard("client", tok)
      matches == {id \in DOMAIN crew :
                    /\ includes(crew[id].clientShortlists, tok.id)
                    /\ crew[id].status = "approved"}
  IN
  IF g.status # 0 THEN Denied("shortlisted", "client", tok, g)
  ELSE /\ resp' = [Reply("shortlisted", "client", tok, g, 200, "") EXCEPT
                     !.crews = matches,
                     !.fields = IF matches = {} THEN {}
                                ELSE select({"internalComments", "adminNotes", "tags",
                                             "priority"})]
       /\ UNCHANGED <<rev, db, inflight>>

\* A POST /requests that turns a submit down while a request of the pair is
\* pending: the guard the handlers do not have.
SubmitRequestGuarded(tok, crewId, notifyOk) ==
  LET g == RouteGuard("client", tok)
      R(code, message) ==
        [Reply("submitRequest", "client", tok, g, code, message) EXCEPT
           !.crewId = crewId, !.clientId = tok.id, !.req = [notifyOk |-> notifyOk]]
  IN
  IF g.status # 0 THEN Denied("submitRequest", "client", tok, g)
  ELSE /\ UNCHANGED <<rev, crew, client, admin, reminders, inflight>>
       /\ IF rev = 1 /\ (crewId \notin DOMAIN crew \/ crew[crewId].status # "approved")
          THEN /\ resp' = R(404, "Crew not found or not approved")
               /\ UNCHANGED requests
          ELSE IF rev = 2 /\ ~Available(crewId)
          THEN /\ resp' = R(404, "Crew not found or not available for clients")
               /\ UNCHANGED requests
          ELSE IF rev = 2 /\ ~includes(crew[crewId].clientShortlists, tok.id)
          THEN /\ resp' = R(403, "This crew member is not assigned to your company")
               /\ UNCHANGED requests
          ELSE IF \E i \in DOMAIN requests :
                    /\ requests[i].client = tok.id
                    /\ requests[i].crew = crewId
                    /\ requests[i].status = "pending"
          THEN /\ resp' = R(400, "Duplicate request")
               /\ UNCHANGED requests
          ELSE /\ Len(requests) < MaxRequests
               /\ requests' = Append(requests, NewRequest(tok.id, crewId))
               /\ resp' = [R(201, "Request submitted successfully")
                             EXCEPT !.requestId = Len(requests) + 1]

\* POST /requests with a body that passes the validators and the schema.
\* notifyOk: whether the admin notification goes through; the handler awaits
\* it inside a try/catch that only logs.
SubmitRequest(tok, crewId, notifyOk) ==
  LET g == RouteGuard("client", tok)
      R(code, message) ==
        [Reply("submitRequest", "client", tok, g, code, message) EXCEPT
           !.crewId = crewId, !.clientId = tok.id, !.req = [notifyOk |-> notifyOk]]
  IN
  IF g.status # 0 THEN Denied("submitRequest", "client", tok, g)
  ELSE /\ UNCHANGED <<rev, crew, client, admin, reminders, inflight>>
       /\ IF rev = 1 /\ (crewId \notin DOMAIN crew \/ crew[crewId].status # "approved")
          THEN /\ resp' = R(404, "Crew not found or not approved")
               /\ UNCHANGED requests
          ELSE IF rev = 2 /\ ~Available(crewId)
          THEN /\ resp' = R(404, "Crew not found or not available for clients")
               /\ UNCHANGED requests
          ELSE IF rev = 2 /\ ~includes(crew[crewId].clientShortlists, tok.id)
          THEN /\ resp' = R(403, "This crew member is not assigned to your company")
               /\ UNCHANGED requests
          ELSE /\ Len(requests) < MaxRequests
               /\ requests' = Append(requests, NewRequest(tok.id, crewId))
               /\ resp' = [R(201, "Request submitted successfully")
                             EXCEPT !.requestId = Len(requests) + 1]

\* GET /requests: the requests whose client reference is the caller.  The
\* second revision also filters by a status the query carries (<<>>: none) and
\* pages the answer; a page holds more requests than the model ever stores.
ListRequests(tok, status) ==
  LET g == RouteGuard("client", tok)
      R(code, message) ==
        [Reply("listRequests", "client", tok, g, code, message) EXCEPT
           !.req = [status |-> status]]
      filter(id) ==
        /\ requests[id].client = tok.id
        /\ rev = 2 /\ status # <<>> => requests[id].status = status[1]
  IN
  IF g.status # 0 THEN Denied("listRequests", "client", tok, g)
  ELSE /\ UNCHANGED <<rev, db, inflight>>
       /\ resp' = [R(200, "") EXCEPT
                     !.requestIds = {id \in DOMAIN requests : filter(id)},
                     !.crews = {requests[id].crew : id \in {i \in DOMAIN requests : filter(i)}},
                     !.fields = populate({"fullName", "rank", "nationality"})]

\* A faulty detail route that answers for any stored request.
RequestDetailAnyOwner(tok, id) ==
  LET g == RouteGuard("client", tok)
      R(code, message) ==
        [Reply("requestDetail", "client", tok, g, code, message) EXCEPT
           !.requestId = id]
  IN
  IF g.status # 0 THEN Denied("requestDetail", "client", tok, g)
  ELSE /\ UNCHANGED <<rev, db, inflight>>
       /\ IF rev = 1
          THEN resp' = R(404, "Route not found")
          ELSE IF id \notin DOMAIN requests
          THEN resp' = R(404, "Request not found")
          ELSE resp' = [R(200, "") EXCEPT
                          !.crews = {requests[id].crew},
                          !.fields = populate({"fullName", "rank", "nationality",
                                               "email", "phone"})]

\* GET /requests/:id: a route of the second revision only; in the first the
\* request falls through to the application's 404 handler (src/index.js).
RequestDetail(tok, id) ==
  LET g == RouteGuard("client", tok)
      R(code, message) ==
        [Reply("requestDetail", "client", tok, g, code, message) EXCEPT
           !.requestId = id]
  IN
  IF g.status # 0 THEN Denied("requestDetail", "client", tok, g)
  ELSE /\ UNCHANGED <<rev, db, inflight>>
       /\ IF rev = 1
          THEN resp' = R(404, "Route not found")
          ELSE IF id \notin DOMAIN requests \/ requests[id].client # tok.id
          THEN resp' = R(404, "Request not found")
          ELSE resp' = [R(200, "") EXCEPT
                          !.crews = {requests[id].crew},
                          !.fields = populate({"fullName", "rank", "nationality",
                                               "email", "phone"})]

\* A faulty respond that lets a failed notification reach the outer catch.
RespondAwaitingNotify(tok, id, status, adminResponse, undefinedDropped, notifyOk) ==
  LET g == RouteGuard("admin", tok)
      R(code, message) ==
        [Reply("respond", "admin", tok, g, code, message) EXCEPT
           !.requestId = id,
           !.req = [status |-> status, adminResponse |-> adminResponse,
                    notifyOk |-> notifyOk]]
  IN
  IF g.status # 0 THEN Denied("respond", "admin", tok, g)
  ELSE /\ UNCHANGED <<rev, crew, client, admin, reminders, inflight>>
       /\ IF status \notin {"approved", "rejected", "completed"}
          THEN /\ resp' = R(400, "Validation failed")
               /\ UNCHANGED requests
          ELSE IF id \notin DOMAIN requests
          THEN /\ resp' = R(404, "Request not found")
               /\ UNCHANGED requests
          ELSE /\ requests[id].respondedAt < MaxResponds
               /\ requests' = [requests EXCEPT
                    ![id].status = status,
                    ![id].adminResponse =
                       IF adminResponse # <<>> THEN adminResponse
                       ELSE IF undefinedDropped THEN @ ELSE <<>>,
                    ![id].respondedAt = @ + 1]
               /\ resp' = IF notifyOk THEN R(200, "") ELSE R(500, "Server error")

\* PATCH /requests/:id/respond.  adminResponse is <<>> when the body leaves it
\* out and <<r>> when it supplies r.  The update document then carries
\* adminResponse: undefined, which the ODM either drops from the update (the
\* stored value stays) or sends, to be stored as null: undefinedDropped says
\* which.  notifyOk: whether the client notification goes through; the handler
\* awaits it inside a try/catch that only logs.
Respond(tok, id, status, adminResponse, undefinedDropped, notifyOk) ==
  LET g == RouteGuard("admin", tok)
      R(code, message) ==
        [Reply("respond", "admin", tok, g, code, message) EXCEPT
           !.requestId = id,
           !.req = [status |-> status, adminResponse |-> adminResponse,
                    notifyOk |-> notifyOk]]
  IN
  IF g.status # 0 THEN Denied("respond", "admin", tok, g)
  ELSE /\ UNCHANGED <<rev, crew, client, admin, reminders, inflight>>
       /\ IF status \notin {"approved", "rejected", "completed"}
          THEN /\ resp' = R(400, "Validation failed")
               /\ UNCHANGED requests
          ELSE IF id \notin DOMAIN requests
          THEN /\ resp' = R(404, "Request not found")
               /\ UNCHANGED requests
          ELSE /\ requests[id].respondedAt < MaxResponds
               /\ requests' = [requests EXCEPT
                    ![id].status = status,
                    ![id].adminResponse =
                       IF adminResponse # <<>> THEN adminResponse
                       ELSE IF undefinedDropped THEN @ ELSE <<>>,
                    ![id].respondedAt = @ + 1]
               /\ resp' = R(200, "")

\* A faulty follow-up that puts the request back to pending.
FollowUpReopening(tok, id, clientMessage) ==
  LET g == RouteGuard("client", tok)
      R(code, message) ==
        [Reply("followUp", "client", tok, g, code, message) EXCEPT
           !.requestId = id, !.req = [clientMessage |-> clientMessage]]
  IN
  IF g.status # 0 THEN Denied("followUp", "client", tok, g)
  ELSE /\ UNCHANGED <<rev, crew, client, admin, reminders, inflight>>
       /\ IF rev = 1
          THEN /\ resp' = R(404, "Route not found")
               /\ UNCHANGED requests
          ELSE IF clientMessage = ""
          THEN /\ resp' = R(400, "Validation failed")
               /\ UNCHANGED requests
          ELSE IF id \notin DOMAIN requests \/ requests[id].client # tok.id
          THEN /\ resp' = R(404, "Request not found")
               /\ UNCHANGED requests
          ELSE /\ Len(requests[id].followUps) < MaxFollowUps
               /\ requests' = [requests EXCEPT
                    ![id].followUps =
                       Append(@, [message |-> clientMessage, sentBy |-> "client"]),
                    ![id].status = "pending"]
               /\ resp' = R(200, "Follow-up message added successfully")

\* PATCH /requests/:id/follow-up of the client routes: a route of the second
\* revision only; in the first the request falls through to the application's
\* 404 handler.  clientMessage is "" when the body has none.
FollowUp(tok, id, clientMessage) ==
  LET g == RouteGuard("client", tok)
      R(code, message) ==
        [Reply("followUp", "client", tok, g, code, message) EXCEPT
           !.requestId = id, !.req = [clientMessage |-> clientMessage]]
  IN
  IF g.status # 0 THEN Denied("followUp", "client", tok, g)
  ELSE /\ UNCHANGED <<rev, crew, client, admin, reminders, inflight>>
       /\ IF rev = 1
          THEN /\ resp' = R(404, "Route not found")
               /\ UNCHANGED requests
          ELSE IF clientMessage = ""
          THEN /\ resp' = R(400, "Validation failed")
               /\ UNCHANGED requests
          ELSE IF id \notin DOMAIN requests \/ requests[id].client # tok.id
          THEN /\ resp' = R(404, "Request not found")
               /\ UNCHANGED requests
          ELSE /\ Len(requests[id].followUps) < MaxFollowUps
               /\ requests' = [requests EXCEPT ![id].followUps =
                    Append(@, [message |-> clientMessage, sentBy |-> "client"])]
               /\ resp' = R(200, "Follow-up message added successfully")

\* PATCH /api/admin/requests/:id/follow-up: the admin routes have no follow-up
\* route, so past the guard the request reaches the application's 404 handler.
AdminFollowUp(tok, id, adminMessage) ==
  LET g == RouteGuard("admin", tok)
      R(code, message) ==
        [Reply("followUp", "admin", tok, g, code, message) EXCEPT
           !.requestId = id, !.req = [clientMessage |-> adminMessage]]
  IN
  IF g.status # 0 THEN Denied("followUp", "admin", tok, g)
  ELSE /\ resp' = R(404, "Route not found")
       /\ UNCHANGED <<rev, db, inflight>>

----------------------------------------------------------------------------
\* Specifications

Optional(S) == {<<>>} \cup {<<x>> : x \in S}

\* How often each listed id is pushed by one bulk request.
Pushes == [CrewIds -> 1..MaxBulk]

\* The assignment workflow: registration, client accounts, vetting, and every
\* operation that writes clientShortlists, by callers who hold valid tokens.
Next ==
  \/ \E e \in RawEmails : Register(e, "valid", DocSlots)
  \/ CreateClient(AdminToken(1))
  \/ \E id \in CrewIds, s \in {"approved", "rejected"} :
       UpdateCrewStatus(AdminToken(1), id, s, <<>>)
  \/ \E id \in CrewIds, c \in ClientIds : AssignClient(AdminToken(1), id, c)
  \/ \E ids \in BulkLists, c \in ClientIds, n \in Pushes :
       BulkAssignClient(AdminToken(1), ids, c, n)
  \/ \E id \in CrewIds, c \in ClientIds : RemoveClient(AdminToken(1), id, c)
  \/ \E t \in ClientTokens, id \in CrewIds : Shortlist(t, id)
  \/ \E t \in ClientTokens, id \in CrewIds : Unshortlist(t, id)

Spec == Init /\ [][Next]_vars

\* What clients are shown.  The initial states are states of Spec: one crew
\* registered with every slot, the client accounts created.
InitAccess ==
  /\ rev \in {1, 2}
  /\ crew = <<NewCrew("a@x.io", DocSlots)>>
  /\ client = [c \in ClientIds |-> NewClient]
  /\ admin = [a \in AdminIds |-> "active"]
  /\ requests = <<>>
  /\ reminders = <<>>
  /\ inflight = <<>>
  /\ resp = Blank

DocTypes == {"cv", "passport", "photo"}

\* The client whose reads are followed; the other client only writes.
Reader == ClientToken(1)

NextAccess ==
  \/ \E e \in RawEmails : Register(e, "valid", RequiredDocs)
  \/ \E id \in CrewIds, s \in {"approved", "pending"}, a \in Optional(BOOLEAN) :
       UpdateCrewStatus(AdminToken(1), id, s, a)
  \/ \E id \in CrewIds, c \in ClientIds : AssignClient(AdminToken(1), id, c)
  \/ \E id \in CrewIds, c \in ClientIds : RemoveClient(AdminToken(1), id, c)
  \/ \E t \in ClientTokens, id \in CrewIds : Shortlist(t, id)
  \/ \E id \in CrewIds : SubmitRequest(Reader, id, TRUE)
  \/ \E t \in ClientTokens : ListCrew(t)
  \/ \E id \in CrewIds, k \in BOOLEAN : CrewDetail(Reader, id, k)
  \/ \E id \in CrewIds, q \in {"absent", "invalid"}, f \in BOOLEAN :
       DownloadCv(Reader, id, q, f)
  \/ \E id \in CrewIds, d \in DocTypes, q \in {"absent", "invalid"}, f \in BOOLEAN :
       ViewCertificate(Reader, id, d, q, f)
  \/ Shortlisted(Reader)
  \/ \E id \in 1..MaxRequests : RequestDetail(Reader, id)

SpecAccess == InitAccess /\ [][NextAccess]_vars

\* Registration alone: every address, every kind of body, every set of uploads.
Bodies == {"valid", "invalid", "badRank"}

\* The sets of uploaded slots tried: all eight, the seven required, either with
\* one slot left out, and none.
Uploads ==
  {DocSlots, RequiredDocs, {}} \cup {DocSlots \ {d} : d \in DocSlots}
                               \cup {RequiredDocs \ {d} : d \in RequiredDocs}

NextRegister ==
  \E e \in RawEmails, b \in Bodies, files \in Uploads : Register(e, b, files)

SpecRegister == Init /\ [][NextRegister]_vars

\* The guard in front of the two route groups.  The initial states are states
\* of Spec after a registration, an approval for clients and the creation of
\* one client account; every request is made with every kind of token.
InitAuth ==
  /\ rev \in {1, 2}
  /\ crew = <<[NewCrew("a@x.io", DocSlots) EXCEPT
                 !.status = "approved", !.approvedForClients = TRUE]>>
  /\ client = <<NewClient>>
  /\ admin = [a \in AdminIds |-> "active"]
  /\ requests = <<>>
  /\ reminders = <<>>
  /\ inflight = <<>>
  /\ resp = Blank

NextAuth ==
  \/ \E t \in Tokens, b \in BOOLEAN : SetClientStatus(t, 1, b)
  \/ \E t \in Tokens, id \in AdminIds, b \in BOOLEAN : UpdateAdmin(t, id, b)
  \/ \E t \in Tokens, id \in AdminIds : DeleteAdmin(t, id)
  \/ \E t \in Tokens : AssignClient(t, 1, 1)
  \/ \E t \in Tokens : CreateReminder(t)
  \/ \E t \in Tokens : Shortlist(t, 1)
  \/ \E t \in Tokens : SubmitRequest(t, 1, TRUE)
  \/ \E t \in Tokens : ListCrew(t)

SpecAuth == InitAuth /\ [][NextAuth]_vars

\* The life of client requests.  The initial states are states of Spec and
\* SpecAccess: one crew approved for clients and assigned to client 1, two
\* client accounts.
InitRequests ==
  /\ rev \in {1, 2}
  /\ crew = <<[NewCrew("a@x.io", DocSlots) EXCEPT
                 !.status = "approved", !.approvedForClients = TRUE,
                 !.clientShortlists = <<1, 2>>]>>
  /\ client = [c \in ClientIds |-> NewClient]
  /\ admin = [a \in AdminIds |-> "active"]
  /\ requests = <<>>
  /\ reminders = <<>>
  /\ inflight = <<>>
  /\ resp = Blank

RequestIds == 1..MaxRequests

NextRequests ==
  \/ \E t \in ClientTokens, n \in BOOLEAN : SubmitRequest(t, 1, n)
  \/ \E t \in ClientTokens, id \in RequestIds : RequestDetail(t, id)
  \/ \E t \in ClientTokens, s \in Optional({"pending", "approved"}) : ListRequests(t, s)
  \/ \E id \in RequestIds, s \in {"pending", "approved", "rejected", "completed"},
        a \in Optional({"r1"}), n \in BOOLEAN :
       \E k \in (IF a = <<>> THEN BOOLEAN ELSE {TRUE}) :
         Respond(AdminToken(1), id, s, a, k, n)
  \/ \E t \in {ClientToken(1), ClientToken(2), AdminToken(1)}, id \in RequestIds,
        m \in {"", "m1"} : FollowUp(t, id, m)
  \/ \E id \in RequestIds : AdminFollowUp(AdminToken(1), id, "m1")

SpecRequests == InitRequests /\ [][NextRequests]_vars

----------------------------------------------------------------------------
\* The bulk tag merges: one crew record, tagged or not, and two admins who send
\* bulk tag requests whose callbacks interleave.  Crew id 2 has no record, and
\* the admin routes are the same in both revisions of the client routes.

TagLists == {<<"a", "b">>, <<"c">>, <<"a", "a">>}

InitTags ==
  /\ rev = 2
  /\ \E t \in {<<"b", "c">>, <<"b", "b">>} :
       crew = <<[NewCrew("a@x.io", DocSlots) EXCEPT !.tags = t]>>
  /\ client = [c \in ClientIds |-> NewClient]
  /\ admin = [a \in AdminIds |-> "active"]
  /\ requests = <<>>
  /\ reminders = <<>>
  /\ inflight = [p \in 1..NumMerges |-> Idle]
  /\ resp = Blank

NextTags ==
  \/ \E p \in 1..NumMerges, ids \in {l \in BulkLists : l[1] = 1}, tags \in TagLists :
       \E t \in {AdminToken(p), ClientToken(p)} : BulkTags(p, t, ids, tags)
  \/ \E p \in 1..NumMerges, i \in 1..MaxBulk : MergeFind(p, i)
  \/ \E p \in 1..NumMerges, i \in 1..MaxBulk : MergeSave(p, i)
  \/ \E p \in 1..NumMerges : BulkTagsReply(p)

SpecTags == InitTags /\ [][NextTags]_vars

----------------------------------------------------------------------------
\* The shortlist writers: one approved crew record that client 2 may already be
\* on, and two requests at a time that add or remove a client.  Crew id 2 has
\* no record; the shortlist routes are the same in both revisions.

InitShortlist ==
  /\ rev = 2
  /\ \E l \in {<<>>, <<2>>} :
       crew = <<[NewCrew("a@x.io", DocSlots) EXCEPT
                   !.status = "approved", !.approvedForClients = TRUE,
                   !.clientShortlists = l]>>
  /\ client = [c \in ClientIds |-> NewClient]
  /\ admin = [a \in AdminIds |-> "active"]
  /\ requests = <<>>
  /\ reminders = <<>>
  /\ inflight = [p \in 1..NumWriters |-> Idle]
  /\ resp = Blank

NextShortlist ==
  \/ \E p \in 1..NumWriters, t \in ClientTokens \cup {AdminToken(1)}, id \in CrewIds :
       ShortlistRead(p, t, id)
  \/ \E p \in 1..NumWriters, id \in CrewIds, c \in ClientIds :
       AssignClientRead(p, AdminToken(1), id, c)
  \/ \E p \in 1..NumWriters : PushSave(p)
  \/ \E p \in 1..NumWriters, t \in ClientTokens, id \in CrewIds : UnshortlistRead(p, t, id)
  \/ \E p \in 1..NumWriters : UnshortlistSave(p)

SpecShortlist == InitShortlist /\ [][NextShortlist]_vars

----------------------------------------------------------------------------
\* The vetting of one applicant: the registration, the admins' status updates
\* with every optional field supplied or left out, and the writers of the
\* record's shortlist.  Crew id 2 never has a record.

StatusBodies ==
  [status : CrewStatuses \cup {"archived"}, priority : Optional(BOOLEAN),
   tags : Optional({<<>>, <<"x">>, <<"y">>}), internalComments : Optional({"c"}),
   adminNotes : Optional({"n"}), approvedForClients : Optional({TRUE})]

\* The bodies sent: any status alone, and approved with one optional field or
\* with all of them.
SentBodies ==
  {b \in StatusBodies :
     LET n == Cardinality({f \in {"priority", "tags", "internalComments", "adminNotes",
                                  "approvedForClients"} : b[f] # <<>>})
     IN n = 0 \/ (b.status = "approved" /\ n \in {1, 5})}

InitStatus ==
  /\ rev = 2
  /\ crew = <<>>
  /\ client = <<NewClient>>
  /\ admin = [a \in AdminIds |-> "active"]
  /\ requests = <<>>
  /\ reminders = <<>>
  /\ inflight = <<>>
  /\ resp = Blank

NextStatus ==
  \/ Register("a@x.io", "valid", DocSlots)
  \/ \E id \in CrewIds, b \in SentBodies : PatchCrewStatus(AdminToken(1), id, b)
  \/ PatchCrewStatus(ClientToken(1), 1, StatusBody("approved", <<>>))
  \/ \E ids \in {<<1>>, <<1, 1>>, <<2, 1>>}, b \in SentBodies :
       BulkStatus(AdminToken(1), ids, b)
  \/ \E id \in CrewIds : AssignClient(AdminToken(1), id, 1)
  \/ \E id \in CrewIds : RemoveClient(AdminToken(1), id, 1)
  \/ \E id \in CrewIds : Shortlist(ClientToken(1), id)
  \/ \E id \in CrewIds : Unshortlist(ClientToken(1), id)

SpecStatus == InitStatus /\ [][NextStatus]_vars

----------------------------------------------------------------------------
\* The reminders: the admins create, update and delete them, and a client tries.

InitReminders ==
  /\ rev = 2
  /\ crew = <<>>
  /\ client = <<NewClient>>
  /\ admin = [a \in AdminIds |-> "active"]
  /\ requests = <<>>
  /\ reminders = <<>>
  /\ inflight = <<>>
  /\ resp = Blank

NextReminders ==
  \/ \E t \in AdminTokens \cup {ClientToken(1)} : CreateReminder(t)
  \/ \E t \in AdminTokens \cup {ClientToken(1)}, id \in 1..MaxReminders,
        s \in {"pending", "completed", "cancelled", "done"} : SetReminderStatus(t, id, s)
  \/ \E t \in AdminTokens, id \in 1..MaxReminders : DeleteReminder(t, id)

SpecReminders == InitReminders /\ [][NextReminders]_vars

----------------------------------------------------------------------------
\* The sessions: one admin account and one client account at first, a second
\* admin id that has no account yet, and callers with and without tokens and
\* passwords.  No account is deleted, so no id is given twice.

InitSession ==
  /\ rev = 2
  /\ crew = <<>>
  /\ client = <<NewClient>>
  /\ admin = [a \in AdminIds |-> IF a = 1 THEN "active" ELSE "deleted"]
  /\ requests = <<>>
  /\ reminders = <<>>
  /\ inflight = <<>>
  /\ resp = Blank

Emails == {0} \cup AdminIds

NextSession ==
  \/ \E e \in Emails, b \in {"valid", "invalid"}, ok \in BOOLEAN : AdminLogin(e, b, ok)
  \/ \E e \in Emails, b \in {"valid", "invalid"}, ok \in BOOLEAN : ClientLogin(e, b, ok)
  \/ \E e \in Emails, b \in {"valid", "invalid"} : AdminRegister(e, b)
  \/ \E t \in Tokens, e \in Emails, b \in {"valid", "invalid"} : CreateAdmin(t, e, b)
  \/ \E t \in Tokens : Refresh(t)
  \/ \E t \in Tokens, ok \in BOOLEAN : KeepAlive(t, ok)
  \/ \E t \in Tokens, id \in AdminIds, b \in BOOLEAN : UpdateAdmin(t, id, b)
  \/ \E t \in Tokens, b \in BOOLEAN : SetClientStatus(t, 1, b)

SpecSession == InitSession /\ [][NextSession]_vars

----------------------------------------------------------------------------
\* Properties of what clients are shown (checked under SpecAccess)

HiddenFields == {"email", "phone", "internalComments", "adminNotes", "tags", "priority"}

\* C1: whatever a client-facing crew read returns (crew list, crew detail,
\* shortlisted list, the crew populated into a request detail), the returned
\* crew data holds none of email, phone, internalComments, adminNotes, tags,
\* priority, nor the stored CV entry.
C1_NoHiddenCrewData ==
  resp.op \in {"listCrew", "crewDetail", "shortlisted", "requestDetail"} =>
    /\ resp.fields \cap HiddenFields = {}
    /\ "cv" \notin resp.docs

\* C2: a client's GET /crew/:id/cv never serves the CV file: in no state of the
\* crew record is it answered 200 with the file in the response, where the
\* claim has it answered 403 in every state.
C2_CvNeverServed ==
  resp.op = "downloadCv" =>
    /\ resp.status # 200
    /\ "cv" \notin resp.docs

\* C3: a crew record that a client read path (crew list, crew detail,
\* shortlisted list, certificate view) exposes to a client is approved and
\* approvedForClients at the time of the read, and in the second revision has
\* the client's id in clientShortlists.  Reads change no record, so the state
\* after the read is the state at the time of the read.
C3_ExposedOnlyIfVisible ==
  resp.op \in {"listCrew", "crewDetail", "shortlisted", "viewCertificate"} =>
    \A c \in resp.crews :
      /\ crew[c].status = "approved"
      /\ crew[c].approvedForClients
      /\ rev = 2 => includes(crew[c].clientShortlists, resp.tok.id)

\* C11: in the second revision the crew list returned to a client holds a crew
\* record exactly when the record is approved, approvedForClients and has the
\* client's id in clientShortlists at the time of the read; so a client the
\* admin assigned lists the record, another client does not, and after the
\* unassign the first no longer does.
C11_ListIffAssigned ==
  (resp.op = "listCrew" /\ rev = 2 /\ resp.status = 200) =>
    resp.crews = {c \in DOMAIN crew :
                    /\ crew[c].status = "approved"
                    /\ crew[c].approvedForClients
                    /\ includes(crew[c].clientShortlists, resp.tok.id)}

\* Client 2 lists nothing while a record visible to clients is assigned to
\* client 1 only.
C11_Witness ==
  /\ resp.op = "listCrew"
  /\ rev = 2
  /\ resp.tok = ClientToken(2)
  /\ resp.crews = {}
  /\ \E c \in DOMAIN crew :
       /\ Available(c)
       /\ includes(crew[c].clientShortlists, 1)
       /\ ~includes(crew[c].clientShortlists, 2)

\* C12: a submit creates a request record only if the crew is visible to the
\* submitting client when it is submitted: approved and approvedForClients, and
\* in the second revision with the client's id in clientShortlists.  Submitting
\* changes no crew record, so the state after it is the state at submission.
C12_SubmitOnlyIfVisible ==
  (resp.op = "submitRequest" /\ resp.status = 201) =>
    /\ Available(resp.crewId)
    /\ rev = 2 => includes(crew[resp.crewId].clientShortlists, resp.clientId)

ViewableSlots == {"passport", "cdc", "stcw", "coc", "seamanBook", "visa", "photo"}

\* C18 as stated: a client's document view of a slot that is not one of
\* passport, cdc, stcw, coc, seamanBook, visa, photo is answered 403, whether
\* or not the crew exists or is visible.
C18_DisallowedSlotForbidden ==
  (/\ resp.op = "viewCertificate"
   /\ resp.userType = "client"
   /\ resp.req.docType \notin ViewableSlots) => resp.status = 403

\* C18 as amended: such a view is answered 403, whether or not the crew exists
\* or is visible, except that the second revision answers 401 when the request
\* carries a ?token that fails verification, which it tests first; the view
\* is never answered 404 and never serves a document.
C18_DisallowedSlotDenied ==
  (/\ resp.op = "viewCertificate"
   /\ resp.userType = "client"
   /\ resp.req.docType \notin ViewableSlots) =>
     /\ resp.status = IF rev = 2 /\ resp.req.queryToken = "invalid" THEN 401 ELSE 403
     /\ resp.docs = {}
     /\ resp.fields = {}

\* The view of the cv slot of a crew id that no record has, answered 403.
C18_Witness ==
  /\ resp.op = "viewCertificate"
  /\ resp.req.docType = "cv"
  /\ resp.crewId \notin DOMAIN crew
  /\ resp.status = 403

\* C28: in the assignment-gated revision a client's id is put on the
\* clientShortlists of a crew record, which makes the record visible to that
\* client, only by an admin's assign or bulk assign; no request of a client
\* adds a client's id to a record the client cannot already see.
C28_GateOnlyByAdmin ==
  [][rev = 2 =>
       \A id \in DOMAIN crew, c \in ClientIds :
         (~includes(crew[id].clientShortlists, c) /\ includes(crew'[id].clientShortlists, c))
           => /\ resp'.op \in {"assignClient", "bulkAssignClient"}
              /\ resp'.userType = "admin"]_vars

----------------------------------------------------------------------------
\* Properties of the bulk tag merges (checked under SpecTags)

NoDuplicate(s) == \A i, j \in DOMAIN s : s[i] = s[j] => i = j

\* The callback i of request p returns success in this step.
MergeSucceeds(p, i) ==
  /\ i \in DOMAIN inflight[p].items
  /\ inflight[p].items[i].pc = "save"
  /\ inflight'[p].items[i].pc = "done"
  /\ inflight'[p].items[i].success

\* C19: a tag merge that a bulk request reports as successful for a crew record
\* with tags T and new tags N leaves the record's tags equal, as a set, to
\* T \cup N with no tag twice; no tag of T is dropped, and the same merge applied
\* to the result yields the result again.
C19_MergeIsUnion ==
  [][\A p \in DOMAIN inflight, i \in 1..MaxBulk :
       MergeSucceeds(p, i) =>
         LET crewId == inflight[p].items[i].crewId
             T == Range(crew[crewId].tags)
             N == Range(inflight[p].tags)
         IN /\ Range(crew'[crewId].tags) = T \cup N
            /\ NoDuplicate(crew'[crewId].tags)
            /\ T \subseteq Range(crew'[crewId].tags)
            /\ newTags(crew'[crewId].tags, inflight[p].tags) = crew'[crewId].tags]_vars

\* The merge of <<"a", "b">> into a record tagged <<"b", "c">> has succeeded and
\* the record is tagged b, c, a.
C19_Witness ==
  \E p \in DOMAIN inflight :
    /\ inflight[p].pc = "running"
    /\ inflight[p].tags = <<"a", "b">>
    /\ \E i \in DOMAIN inflight[p].items :
         /\ inflight[p].items[i].pc = "done"
         /\ inflight[p].items[i].success
         /\ inflight[p].items[i].doc.tags = <<"b", "c">>
         /\ crew[inflight[p].items[i].crewId].tags = <<"b", "c", "a">>

\* C20: when two admins' tag merges run concurrently on one crew record, the
\* record holds every tag of both lists once both have finished, however their
\* reads and writes interleave: a bulk tag request that has been answered has
\* left every tag of its list on every record it names.
C20_NoLostUpdate ==
  (resp.op = "bulkTags" /\ resp.status = 200) =>
    \A i \in DOMAIN resp.req.crewIds :
      resp.req.crewIds[i] \in DOMAIN crew =>
        Range(resp.req.tags) \subseteq Range(crew[resp.req.crewIds[i]].tags)

----------------------------------------------------------------------------
\* Properties of the shortlist writers (checked under SpecShortlist)

\* The request in slot p is answered in this step.
Answers(p) == inflight[p].pc = "save" /\ inflight'[p].pc = "idle"

\* C21: concurrent shortlist mutations of one crew record end as if they had
\* run one after the other.  Each request takes effect on the record as it
\* stands when the request is answered: an add leaves the client's id on the
\* list exactly once, a removal leaves it off the list, every other id keeps its
\* number of occurrences, and the list never holds an id twice.
C21_SerialShortlist ==
  [][\A p \in DOMAIN inflight :
       Answers(p) =>
         LET w == inflight[p]
             before == crew[w.crewId].clientShortlists
             after == crew'[w.crewId].clientShortlists
         IN /\ Count(after, w.clientId) = IF w.op = "unshortlist" THEN 0 ELSE 1
            /\ \A d \in ClientIds \ {w.clientId} : Count(after, d) = Count(before, d)
            /\ \A d \in ClientIds : Count(after, d) <= 1]_vars

----------------------------------------------------------------------------
\* Properties of the status updates (checked under SpecStatus)

\* The ids of the records that the status update answered in this step wrote.
Updated ==
  IF resp'.op = "updateCrewStatus" /\ resp'.status = 200 THEN {resp'.crewId}
  ELSE IF resp'.op = "bulkStatus" /\ resp'.status = 200
  THEN Range(resp'.req.crewIds) \cap DOMAIN crew
  ELSE {}

\* The body of the status update answered in this step.
UpdateBody == IF resp'.op = "bulkStatus" THEN resp'.req.body ELSE resp'.req

\* C22: a crew record's status is always one of pending, approved, rejected,
\* missing_docs and is pending at creation; an admin's single status update of
\* an existing record to any of the four is accepted and stores that status,
\* whatever the status was; and only the single and the bulk status update
\* change a status.
C22_FlatStatus ==
  /\ [](\A id \in DOMAIN crew : crew[id].status \in CrewStatuses)
  /\ [][/\ \A id \in DOMAIN crew' \ DOMAIN crew : crew'[id].status = "pending"
        /\ (/\ resp'.op = "updateCrewStatus"
            /\ resp'.status \notin {401, 403}
            /\ resp'.req.status \in CrewStatuses
            /\ resp'.crewId \in DOMAIN crew) =>
             /\ resp'.status = 200
             /\ crew'[resp'.crewId].status = resp'.req.status
        /\ \A id \in DOMAIN crew :
             crew'[id].status # crew[id].status => id \in Updated]_vars

\* A record that was approved for clients, so updated before, answered 200 on
\* an update to pending, and pending.
C22_Witness ==
  /\ resp.op = "updateCrewStatus"
  /\ resp.status = 200
  /\ resp.req.status = "pending"
  /\ resp.req.approvedForClients = <<>>
  /\ crew[resp.crewId].status = "pending"
  /\ crew[resp.crewId].approvedForClients

\* C27: a status update, single or bulk, that carries a tags list sets the
\* record's tags to exactly that list and one without a tags list leaves the
\* tags; priority, internalComments, adminNotes and approvedForClients change
\* only when supplied; clientShortlists and documents are never changed by a
\* status update, and a record the update does not name is not changed.
C27_StatusUpdateFrame ==
  [][(resp'.op \in {"updateCrewStatus", "bulkStatus"}) =>
       /\ \A id \in Updated :
            LET b == UpdateBody IN
            /\ crew'[id].tags = IF b.tags # <<>> THEN b.tags[1] ELSE crew[id].tags
            /\ crew'[id].priority =
                 IF b.priority # <<>> THEN b.priority[1] ELSE crew[id].priority
            /\ crew'[id].internalComments =
                 IF b.internalComments # <<>> THEN b.internalComments
                 ELSE crew[id].internalComments
            /\ crew'[id].adminNotes =
                 IF b.adminNotes # <<>> THEN b.adminNotes ELSE crew[id].adminNotes
            /\ crew'[id].approvedForClients =
                 IF b.approvedForClients # <<>> THEN b.approvedForClients[1]
                 ELSE crew[id].approvedForClients
            /\ crew'[id].clientShortlists = crew[id].clientShortlists
            /\ crew'[id].documents = crew[id].documents
       /\ DOMAIN crew' = DOMAIN crew
       /\ \A id \in DOMAIN crew \ Updated : crew'[id] = crew[id]]_vars

\* A record with notes, so updated before, and on client 1's shortlist, after a
\* status update whose tags list <<"y">> is all it is tagged with.
C27_Witness ==
  /\ resp.op \in {"updateCrewStatus", "bulkStatus"}
  /\ resp.status = 200
  /\ 1 \in DOMAIN crew
  /\ (IF resp.op = "bulkStatus" THEN resp.req.body ELSE resp.req).tags = << <<"y">> >>
  /\ (IF resp.op = "bulkStatus" THEN resp.req.body ELSE resp.req).adminNotes = <<>>
  /\ crew[1].tags = <<"y">>
  /\ crew[1].adminNotes = <<"n">>
  /\ crew[1].clientShortlists = <<1>>

\* C26: the answer of a bulk status update, bulk tag merge or bulk client
\* assignment carries one result per listed id, in order, each a success or a
\* failure with a reason; every listed id that has a record is updated, whatever
\* the other listed ids are; and summary.successful + summary.failed =
\* summary.total = the number of listed ids.
C26_BulkOutcome ==
  (resp.op \in {"bulkStatus", "bulkTags", "bulkAssignClient"} /\ resp.status = 200) =>
    LET ids == resp.req.crewIds IN
    /\ DOMAIN resp.results = DOMAIN ids
    /\ \A i \in DOMAIN ids :
         /\ resp.results[i].crewId = ids[i]
         /\ resp.results[i].success \/ resp.results[i].error # ""
         /\ ids[i] \in DOMAIN crew =>
              CASE resp.op = "bulkStatus" -> crew[ids[i]].status = resp.req.body.status
                [] resp.op = "bulkTags" ->
                     Range(resp.req.tags) \subseteq Range(crew[ids[i]].tags)
                [] OTHER -> includes(crew[ids[i]].clientShortlists, resp.clientId)
    /\ resp.summary.successful + resp.summary.failed = resp.summary.total
    /\ resp.summary.total = Len(ids)

----------------------------------------------------------------------------
\* Properties of the reminders (checked under SpecReminders)

\* C23: a reminder starts pending, and once its status is completed or
\* cancelled no operation changes its status again.
C23_ReminderTerminal ==
  [][/\ \A id \in DOMAIN reminders' \ DOMAIN reminders :
          reminders'[id].status = "pending"
     /\ \A id \in DOMAIN reminders :
          reminders[id].status \in {"completed", "cancelled"} =>
            reminders'[id].status = reminders[id].status]_vars

----------------------------------------------------------------------------
\* Properties of the sessions (checked under SpecSession)

\* C25: for every authenticated principal, the keep-alive answers that the
\* session is alive, whether or not its update of the last-activity timestamp
\* errors.
C25_KeepAliveSucceeds ==
  (resp.op = "keepAlive" /\ resp.status # 401) =>
    resp.status = 200 /\ resp.message = "Session is alive"

\* C30: a token with role tag admin is issued, and an admin account is created,
\* only by an admin login with the password of an existing active admin account
\* or by a request whose principal is an admin; every other request leaves the
\* admin accounts as they are and issues no admin token.
C30_AdminOnlyByAdmin ==
  [][(\/ resp'.issued.type = "admin"
      \/ \E a \in AdminIds : admin[a] = "deleted" /\ admin'[a] # "deleted") =>
       \/ /\ resp'.op = "adminLogin"
          /\ resp'.req.email \in AdminIds
          /\ admin[resp'.req.email] = "active"
          /\ resp'.req.passwordOk
          /\ resp'.issued = AdminToken(resp'.req.email)
       \/ /\ resp'.userType = "admin"
          /\ auth(resp'.tok).status = 0]_vars

----------------------------------------------------------------------------
\* Properties of the assignment workflow (checked under Spec)

\* C8: assigning a client that is already assigned leaves exactly one
\* occurrence of its id, and after any sequence of assign, self-shortlist and
\* unassign requests no clientShortlists holds an id twice.
C8_NoIdTwice ==
  \A id \in DOMAIN crew, c \in ClientIds : Count(crew[id].clientShortlists, c) <= 1

\* C9: unassigning (admin remove-client, or the client's own removal) a client
\* id that is not a member of an existing crew record's clientShortlists is
\* answered with success and leaves clientShortlists as it was.
C9_UnassignNonMember ==
  [][(/\ resp'.op \in {"removeClient", "unshortlist"}
      /\ resp'.crewId \in DOMAIN crew
      /\ ~includes(crew[resp'.crewId].clientShortlists, resp'.clientId))
     => (resp'.status = 200 /\ crew' = crew)]_vars

\* A remove-client of an id that no client account has (so never a member),
\* answered with success, on a record whose list is not empty.
C9_Witness ==
  /\ resp.op = "removeClient"
  /\ resp.status = 200
  /\ resp.clientId \notin DOMAIN client
  /\ crew[resp.crewId].clientShortlists # <<>>

ShortlistsHoldClients ==
  \A id \in DOMAIN crew : Range(crew[id].clientShortlists) \subseteq DOMAIN client

\* C10: every id in a clientShortlists is the id of an existing client account;
\* assign-client answers 404 "Crew not found" when the crew is missing and 404
\* "Client not found" when the client is, bulk-assign-client answers 404 "Client
\* not found" when the client is missing, and none of these changes a
\* clientShortlists.
C10_OnlyExistingClients ==
  /\ []ShortlistsHoldClients
  /\ [][(resp'.op = "assignClient" /\ resp'.crewId \notin DOMAIN crew)
        => (resp'.status = 404 /\ resp'.message = "Crew not found" /\ crew' = crew)]_vars
  /\ [][(/\ resp'.op \in {"assignClient", "bulkAssignClient"}
         /\ resp'.op = "assignClient" => resp'.crewId \in DOMAIN crew
         /\ resp'.clientId \notin DOMAIN client)
        => (resp'.status = 404 /\ resp'.message = "Client not found" /\ crew' = crew)]_vars

\* An assign-client naming a client that does not exist, answered 404, while
\* some record already has a client assigned.
C10_Witness ==
  /\ resp.op = "assignClient"
  /\ resp.status = 404
  /\ resp.message = "Client not found"
  /\ \E id \in DOMAIN crew : crew[id].clientShortlists # <<>>

----------------------------------------------------------------------------
\* Properties of the guard (checked under SpecAuth)

\* C4: in the admin group and in the client group, a request for which no
\* principal was resolved is answered 401, a request whose resolved principal
\* has the other role is answered 403, in both cases no crew, client, request
\* or reminder record changes, and so a route's logic changes records only for
\* a resolved principal of the group's role.
C4_GroupGuard ==
  [][resp'.group \in {"admin", "client"} =>
       /\ resp'.userType = "none" =>
            (resp'.status = 401 /\ <<crew, client, requests, reminders>>' =
                                   <<crew, client, requests, reminders>>)
       /\ resp'.userType \notin {"none", resp'.group} =>
            (resp'.status = 403 /\ <<crew, client, requests, reminders>>' =
                                   <<crew, client, requests, reminders>>)
       /\ <<crew, client, requests, reminders>>' # <<crew, client, requests, reminders>>
            => resp'.userType = resp'.group]_vars

\* A client's token on an admin route that would have written: answered 403.
C4_Witness ==
  /\ resp.op = "assignClient"
  /\ resp.tok.type = "client"
  /\ resp.status = 403
  /\ crew[1].clientShortlists = <<>>

\* The account a signed token names exists and is active.
Live(tok) ==
  IF tok.type = "admin" THEN admin[tok.id] = "active"
  ELSE tok.id \in DOMAIN client /\ client[tok.id].isActive

\* C5: for a request with a validly signed token the principal is resolved
\* exactly when the account the token names exists and is active when the
\* request is made, and is answered 401 otherwise; so a client's token is
\* answered 401 from its deactivation until its re-activation.
C5_ResolvedIffLive ==
  [][(resp'.group \in {"admin", "client"} /\ resp'.tok.type \in {"admin", "client"}) =>
       /\ (resp'.userType = resp'.tok.type) <=> Live(resp'.tok)
       /\ ~Live(resp'.tok) => (resp'.userType = "none" /\ resp'.status = 401)]_vars

\* A deactivated client's request to a client route, answered 401.
C5_Witness ==
  /\ resp.group = "client"
  /\ resp.tok.type = "client"
  /\ ~client[resp.tok.id].isActive
  /\ resp.status = 401

----------------------------------------------------------------------------
\* Properties of registration (checked under SpecRegister)

Registered(e) == \E i \in DOMAIN crew : crew[i].email = e

\* C6: a registration with valid fields and an address not yet registered is
\* rejected with 400 and creates no record when one of cv, passport, cdc, stcw,
\* coc, seamanBook, visa is missing, and creates a record with status pending
\* (201) when the seven are there, with or without a photo.
C6_SevenDocuments ==
  [][(/\ resp'.op = "register"
      /\ resp'.req.body = "valid"
      /\ ~Registered(normalizeEmail(resp'.req.email))) =>
        IF {"cv", "passport", "cdc", "stcw", "coc", "seamanBook", "visa"}
             \subseteq resp'.req.files
        THEN /\ resp'.status = 201
             /\ Len(crew') = Len(crew) + 1
             /\ SubSeq(crew', 1, Len(crew)) = crew
             /\ crew'[Len(crew')].status = "pending"
             /\ crew'[Len(crew')].documents = resp'.req.files
        ELSE /\ resp'.status = 400
             /\ crew' = crew]_vars

\* A record made without a photo, and a later registration turned down for
\* missing documents.
C6_Witness ==
  /\ resp.op = "register"
  /\ resp.status = 400
  /\ resp.missing # {}
  /\ \E i \in DOMAIN crew : "photo" \notin crew[i].documents

UniqueEmails ==
  \A i, j \in DOMAIN crew : crew[i].email = crew[j].email => i = j

----------------------------------------------------------------------------
\* Properties of client requests (checked under SpecRequests)

MaySubmit(clientId, crewId) ==
  /\ crewId \in DOMAIN crew
  /\ crew[crewId].status = "approved"
  /\ rev = 2 => /\ crew[crewId].approvedForClients
                /\ includes(crew[crewId].clientShortlists, clientId)

C14_TerminalStatusStays ==
  [][/\ \A id \in DOMAIN requests :
          requests[id].status # "pending" => requests'[id].status = requests[id].status
     /\ \A id \in DOMAIN requests' \ DOMAIN requests : requests'[id].status = "pending"]_vars

\* C15: a request's client and crew never change; its status, adminResponse
\* and respondedAt change only in a respond on it, which sets the status and a
\* new respondedAt and stores the adminResponse the body carries; its followUps
\* change only in a follow-up on it, which appends one entry after the earlier
\* ones and leaves status, adminResponse and respondedAt alone.
C15_RequestFrame ==
  [][\A id \in DOMAIN requests :
       LET old == requests[id]
           new == requests'[id]
           responded == resp'.op = "respond" /\ resp'.status = 200 /\ resp'.requestId = id
           followed == resp'.op = "followUp" /\ resp'.status = 200 /\ resp'.requestId = id
       IN
       /\ new.client = old.client
       /\ new.crew = old.crew
       /\ <<new.status, new.adminResponse, new.respondedAt>> #
            <<old.status, old.adminResponse, old.respondedAt>> => responded
       /\ responded =>
            /\ new.status = resp'.req.status
            /\ new.respondedAt > old.respondedAt
            /\ resp'.req.adminResponse # <<>> => new.adminResponse = resp'.req.adminResponse
            /\ new.followUps = old.followUps
       /\ new.followUps # old.followUps => followed
       /\ followed =>
            /\ Len(new.followUps) = Len(old.followUps) + 1
            /\ SubSeq(new.followUps, 1, Len(old.followUps)) = old.followUps
            /\ new.followUps[Len(new.followUps)].message = resp'.req.clientMessage]_vars

\* A second follow-up just appended to a request that was answered before.
C15_Witness ==
  /\ resp.op = "followUp"
  /\ resp.status = 200
  /\ requests[resp.requestId].status = "approved"
  /\ requests[resp.requestId].adminResponse = <<"r1">>
  /\ Len(requests[resp.requestId].followUps) = 2

\* C16: a follow-up with a message on an existing request, in any status, by
\* the client that owns the request or by an admin, is accepted and recorded
\* last in followUps with the author's role.
C16_FollowUpAccepted ==
  (/\ resp.op = "followUp"
   /\ resp.requestId \in DOMAIN requests
   /\ resp.req.clientMessage # ""
   /\ \/ resp.tok = AdminToken(1)
      \/ resp.tok = ClientToken(requests[resp.requestId].client)) =>
     /\ resp.status = 200
     /\ requests[resp.requestId].followUps # <<>>
     /\ requests[resp.requestId].followUps[Len(requests[resp.requestId].followUps)].sentBy
          = resp.tok.type

\* C17: an admin's respond with a valid status on an existing request commits
\* the status, the adminResponse and a new respondedAt and is answered 200, and
\* a submit that stores a request is answered 201, and a submit that fails
\* stores nothing, whether the notification went through or not.
C17_NotifyFailureSwallowed ==
  [][/\ (/\ resp'.op = "respond"
         /\ resp'.userType = "admin"
         /\ resp'.req.status \in {"approved", "rejected", "completed"}
         /\ resp'.requestId \in DOMAIN requests) =>
           /\ resp'.status = 200
           /\ requests'[resp'.requestId].status = resp'.req.status
           /\ requests'[resp'.requestId].respondedAt =
                requests[resp'.requestId].respondedAt + 1
           /\ resp'.req.adminResponse # <<>> =>
                requests'[resp'.requestId].adminResponse = resp'.req.adminResponse
     /\ (/\ resp'.op = "submitRequest"
         /\ resp'.userType = "client"
         /\ MaySubmit(resp'.clientId, resp'.crewId)) =>
           /\ resp'.status = 201
           /\ Len(requests') = Len(requests) + 1
           /\ requests'[resp'.requestId] = NewRequest(resp'.clientId, resp'.crewId)]_vars

\* A first respond whose notification failed, answered 200 with the status
\* stored.
C17_Witness ==
  /\ resp.op = "respond"
  /\ resp.status = 200
  /\ ~resp.req.notifyOk
  /\ requests[resp.requestId].status = resp.req.status
  /\ requests[resp.requestId].respondedAt = 1

\* C29 as stated: a client's detail read or follow-up is answered 200 only on
\* a request whose client reference is the caller's id, a list holds only such
\* requests, and a detail read or a follow-up on a request of another client
\* is answered 404 and changes no request.
C29_ForeignAnswered404 ==
  [][LET r == resp'
         foreign == /\ r.op \in {"requestDetail", "followUp"}
                    /\ r.group = "client"
                    /\ r.userType = "client"
                    /\ r.requestId \in DOMAIN requests
                    /\ requests[r.requestId].client # r.tok.id
     IN
     /\ (r.op \in {"requestDetail", "followUp"} /\ r.group = "client" /\ r.status = 200) =>
          /\ r.requestId \in DOMAIN requests
          /\ requests[r.requestId].client = r.tok.id
     /\ (r.op = "listRequests" /\ r.status = 200) =>
          \A id \in r.requestIds : requests[id].client = r.tok.id
     /\ foreign => r.status = 404 /\ requests' = requests]_vars

\* C29, amended: as stated, except that a follow-up with an empty message on a
\* request of another client is answered 400 by the second revision's
\* validator, which runs before the request is looked up; it too changes no
\* request.
C29_OwnRequestsOnly ==
  [][LET r == resp'
         foreign == /\ r.op \in {"requestDetail", "followUp"}
                    /\ r.group = "client"
                    /\ r.userType = "client"
                    /\ r.requestId \in DOMAIN requests
                    /\ requests[r.requestId].client # r.tok.id
         invalid == r.op = "followUp" /\ rev = 2 /\ r.req.clientMessage = ""
     IN
     /\ (r.op \in {"requestDetail", "followUp"} /\ r.group = "client" /\ r.status = 200) =>
          /\ r.requestId \in DOMAIN requests
          /\ requests[r.requestId].client = r.tok.id
     /\ (r.op = "listRequests" /\ r.status = 200) =>
          \A id \in r.requestIds : requests[id].client = r.tok.id
     /\ foreign => /\ r.status = (IF invalid THEN 400 ELSE 404)
                   /\ requests' = requests]_vars

\* A follow-up with a message by a client on a request that another client
\* owns and has followed up, answered 404, while that client's own request is
\* stored too.
C29_Witness ==
  /\ rev = 2
  /\ resp.op = "followUp"
  /\ resp.group = "client"
  /\ resp.userType = "client"
  /\ resp.req.clientMessage # ""
  /\ resp.requestId \in DOMAIN requests
  /\ requests[resp.requestId].client # resp.tok.id
  /\ requests[resp.requestId].followUps # <<>>
  /\ \E id \in DOMAIN requests : requests[id].client = resp.tok.id
  /\ resp.status = 404

====
